---- MODULE Spec2Model ----
(***************************************************************************)
(* A model of the logic core of the SoundShare front-end:                  *)
(*   - FilterProcessor.applyFilters / generateQueue  (lib/playlist-types)  *)
(*   - convertQueryToJSON / convertQueryJSONToRuleGroup (query builder)    *)
(*   - QueueColumn, the playback sequencer, over MusicProvider             *)
(*   - Home and the playlist edits of PlaylistColumn, LibraryColumn and    *)
(*     SongTable; MusicPlayer and its audio element; AdvancedFilterPanel   *)
(*                                                                         *)
(* JavaScript values are encoded with one shape per type, so that values   *)
(* of different JavaScript types never meet in a TLA+ comparison:          *)
(*   string | null, string | undefined : [some : BOOLEAN, v : Seq(Chars)]  *)
(*   number | null, number | undefined : [some : BOOLEAN, v : Int]         *)
(* A string is the sequence of its characters.                             *)
(***************************************************************************)
EXTENDS Integers, Sequences, FiniteSets, Bags, TLC

VARIABLES
  pc,               \* position of the caller of a pure function: "call" | "done"
  songs,            \* applyFilters: argument songs
  filters,          \* applyFilters: argument filters
  filtered,         \* applyFilters: the returned array
  playlist,         \* generateQueue: argument playlist
  allSongs,         \* generateQueue: argument allSongs; QueueColumn: the catalog
  generatedQueue,   \* generateQueue: the returned array
  query,            \* the rule-builder tree (RuleGroupType) being converted
  queryJSON,        \* convertQueryToJSON(query): a QueryJSON or null
  roundTrip,        \* convertQueryJSONToRuleGroup(queryJSON)
  incomingQuery,    \* normalizeTagsRuleGroup: the argument group
  normalizedQuery,  \* normalizeTagsRuleGroup(incomingQuery)
  renormalizedQuery, \* normalizeTagsRuleGroup(normalizedQuery)
  songsCache,       \* the query cache: the data of each song list query
  pendingMutations, \* tag mutations whose response has not arrived
  issuedMutations,  \* history: the tag mutations, in the order of mutate()
  arrivedResponses, \* history: the successful responses, in order of arrival
  savedPlaylistIds, \* PlaylistColumn: the ids of the playlists of the ['playlists'] query
  editingPlaylistId, \* PlaylistColumn: the playlist being renamed, 0 for null
  renamePending,    \* the playlist of the rename request in flight, 0 for none
  deletePending,    \* the playlist of the delete request in flight, 0 for none
  panelQuery,       \* AdvancedFilterPanel: query, the tree being edited
  libraryQuery,     \* LibraryColumn: query, the panel's filters prop and the
                    \* key of the song fetch; a QueryJSON or null
  isQueryBuilderUpdate, \* AdvancedFilterPanel: the ref of that name
  notified,         \* history: the last step called onFiltersChange
  editingFilter,    \* Home: the playlist filter being edited, LibraryColumn's prop, or null
  currentPlaylist,  \* Home: the selected playlist, QueueColumn's prop, or null
  filtersRef,       \* identity of the array currentPlaylist.filters (0 with no playlist)
  songsLoaded,      \* QueueColumn: isSuccess of the ['songs'] query
  queueItems,       \* QueueColumn: the queue
  currentPosition,  \* QueueColumn: index (from 0) of the current item
  playlistOptions,  \* QueueColumn: shuffle, repeat, autoplay
  currentSong,      \* MusicProvider: the current song or null
  isPlaying,        \* MusicProvider
  isPlayerVisible,  \* MusicProvider
  hasError,         \* MusicPlayer: the error state
  audioPaused,      \* the audio element: paused
  playPending,      \* the audio element: a promise of play() is not settled
  media,            \* the audio element: "none" | "loading" | "ok" | "failed"
  erroredSong,      \* history: the song a playback error was raised on, until
                    \* another song is selected; or null
  lastOp            \* history: the navigation handler that ran last, or "other"

filterVars == <<songs, filters, filtered>>
genVars == <<playlist, allSongs, generatedQueue>>
queryVars == <<query, queryJSON, roundTrip>>
normVars == <<incomingQuery, normalizedQuery, renormalizedQuery>>
cacheVars == <<songsCache, pendingMutations, issuedMutations, arrivedResponses>>
columnVars == <<savedPlaylistIds, editingPlaylistId, renamePending, deletePending>>
panelVars == <<panelQuery, libraryQuery, isQueryBuilderUpdate, notified, editingFilter>>
playerVars == <<hasError, audioPaused, playPending, media, erroredSong>>
seqVars == <<currentPlaylist, filtersRef, songsLoaded, queueItems, currentPosition,
             playlistOptions, currentSong, isPlaying, isPlayerVisible, playerVars, lastOp>>
vars == <<pc, filterVars, genVars, queryVars, normVars, cacheVars, columnVars, panelVars,
          seqVars>>

(***************************************************************************)
(* Bounds of the model.                                                    *)
(***************************************************************************)
MaxStrLen == 2      \* longest string of a text field or text matcher
MaxFeature == 2     \* audio features and bounds range over 0..MaxFeature
MaxCatalog == 2     \* longest catalog handed to generateQueue
MaxFilters == 2     \* most saved filters of a playlist
MaxManual == 2      \* most manual songs of a playlist
MaxNodes == 3       \* most nodes (groups and rules) of a rule-builder tree
MaxMutations == 2   \* most tag mutations issued in one behaviour

Chars == {"a", "A", "b"}
TagNames == {"t1", "t2"}
Years == {1999, 2000}

Range(s) == {s[i] : i \in DOMAIN s}
SeqsUpTo(S, n) == UNION {[1..k -> S] : k \in 0..n}
Strings == SeqsUpTo(Chars, MaxStrLen)

(***************************************************************************)
(* Optional values: null on a Song, undefined on a SongsFilters.           *)
(***************************************************************************)
NoStr == [some |-> FALSE, v |-> <<>>]
SomeStr(s) == [some |-> TRUE, v |-> s]
NoNum == [some |-> FALSE, v |-> 0]
SomeNum(n) == [some |-> TRUE, v |-> n]
NoTag == [some |-> FALSE, v |-> ""]
SomeTag(t) == [some |-> TRUE, v |-> t]

(***************************************************************************)
(* String.prototype.toLowerCase and String.prototype.includes.             *)
(***************************************************************************)
toLowerCaseIdentity(s) == s

toLowerCase(s) == [i \in DOMAIN s |-> IF s[i] = "A" THEN "a" ELSE s[i]]

includes(s, v) ==
  \E i \in 0..(Len(s) - Len(v)) : SubSeq(s, i + 1, i + Len(v)) = v

(***************************************************************************)
(* FilterProcessor.applyFilters: the tests of the filter callback.         *)
(* Each ...Fails operator is one `if (...) return false` of the callback.  *)
(***************************************************************************)
\* filters.artist && !song.artist?.toLowerCase().includes(filters.artist.toLowerCase())
textFails(matcher, field) ==
  /\ matcher.some /\ matcher.v # <<>>
  /\ ~(field.some /\ includes(toLowerCase(field.v), toLowerCase(matcher.v)))

\* filters.year && song.year !== filters.year
yearFails(matcher, year) ==
  /\ matcher.some /\ matcher.v # 0
  /\ ~(year.some /\ year.v = matcher.v)

\* filters.tag && !song.tags.some(tag => tag.name === filters.tag)
tagFails(matcher, tags) ==
  /\ matcher.some /\ matcher.v # ""
  /\ ~(\E tag \in tags : tag = matcher.v)

\* filters.energy_min !== undefined && (song.energy === null || song.energy < filters.energy_min)
minFailsNullKept(bound, feature) ==
  bound.some /\ feature.some /\ feature.v < bound.v

minFails(bound, feature) ==
  bound.some /\ (~feature.some \/ feature.v < bound.v)

\* filters.energy_max !== undefined && (song.energy === null || song.energy > filters.energy_max)
maxFailsUnchecked(bound, feature) == FALSE

maxFails(bound, feature) ==
  bound.some /\ (~feature.some \/ feature.v > bound.v)

keepAnyTagMatcher(song, f) ==
  /\ ~textFails(f.artist, song.artist)
  /\ ~textFails(f.album, song.album)
  /\ ~textFails(f.genre, song.genre)
  /\ ~yearFails(f.year, song.year)
  /\ \/ ~tagFails(f.tag1, song.tags) /\ ~tagFails(f.tag2, song.tags) /\ ~tagFails(f.tag, song.tags)
     \/ \E k \in {"tag1", "tag2", "tag"} : f[k].some /\ f[k].v \in song.tags
  /\ ~minFails(f.energy_min, song.energy)
  /\ ~maxFails(f.energy_max, song.energy)
  /\ ~minFails(f.valence_min, song.valence)
  /\ ~maxFails(f.valence_max, song.valence)
  /\ ~minFails(f.danceability_min, song.danceability)
  /\ ~maxFails(f.danceability_max, song.danceability)
  /\ ~minFails(f.tempo_min, song.tempo)
  /\ ~maxFails(f.tempo_max, song.tempo)

\* The callback of songs.filter: true iff the song is kept.
keep(song, f) ==
  /\ ~textFails(f.artist, song.artist)
  /\ ~textFails(f.album, song.album)
  /\ ~textFails(f.genre, song.genre)
  /\ ~yearFails(f.year, song.year)
  /\ ~tagFails(f.tag1, song.tags)
  /\ ~tagFails(f.tag2, song.tags)
  /\ ~tagFails(f.tag, song.tags)
  /\ ~minFails(f.energy_min, song.energy)
  /\ ~maxFails(f.energy_max, song.energy)
  /\ ~minFails(f.valence_min, song.valence)
  /\ ~maxFails(f.valence_max, song.valence)
  /\ ~minFails(f.danceability_min, song.danceability)
  /\ ~maxFails(f.danceability_max, song.danceability)
  /\ ~minFails(f.tempo_min, song.tempo)
  /\ ~maxFails(f.tempo_max, song.tempo)

applyFilters(ss, f) == SelectSeq(ss, LAMBDA song : keep(song, f))

(***************************************************************************)
(* FilterProcessor.generateQueue.  The loop state is the array queueItems  *)
(* and the counter position; an item id `${song.id}-${position}` is the    *)
(* pair <<song.id, position>>.                                             *)
(***************************************************************************)
NoFilterId == [some |-> FALSE, v |-> 0]
SomeFilterId(i) == [some |-> TRUE, v |-> i]

\* queueItems.find(item => item.song.id === song.id)
existingItem(items, song) ==
  \E i \in DOMAIN items : items[i].song.id = song.id

QueueItem(song, position, via, fid) ==
  [id |-> <<song.id, position>>, song |-> song, position |-> position,
   is_current |-> FALSE, added_via |-> via, filter_id |-> fid]

\* The body of either forEach over songs: push the song unless it is queued.
pushSongManualUnchecked(acc, song, via, fid) ==
  IF via = "filter" /\ existingItem(acc.queueItems, song) THEN acc
  ELSE [queueItems |-> Append(acc.queueItems, QueueItem(song, acc.position, via, fid)),
        position |-> acc.position + 1]

pushSongPreIncrement(acc, song, via, fid) ==
  IF existingItem(acc.queueItems, song) THEN acc
  ELSE [queueItems |-> Append(acc.queueItems, QueueItem(song, acc.position + 1, via, fid)),
        position |-> acc.position + 1]

pushSong(acc, song, via, fid) ==
  IF existingItem(acc.queueItems, song) THEN acc
  ELSE [queueItems |-> Append(acc.queueItems, QueueItem(song, acc.position, via, fid)),
        position |-> acc.position + 1]

RECURSIVE pushSongs(_, _, _, _)
pushSongs(acc, ss, via, fid) ==
  IF ss = <<>> THEN acc
  ELSE pushSongs(pushSong(acc, Head(ss), via, fid), Tail(ss), via, fid)

\* playlist.filters.forEach(filter => ...)
RECURSIVE pushFilters(_, _, _)
pushFilters(acc, fs, all) ==
  IF fs = <<>> THEN acc
  ELSE pushFilters(
         pushSongs(acc, applyFilters(all, Head(fs).filters), "filter",
                   SomeFilterId(Head(fs).id)),
         Tail(fs), all)

generateQueue(pl, all) ==
  pushSongs(pushFilters([queueItems |-> <<>>, position |-> 0], pl.filters, all),
            pl.manual_songs, "manual", NoFilterId).queueItems

(***************************************************************************)
(* JavaScript values of the rule-builder tree: a rule's field, operator,   *)
(* value and not, a group's not.                                           *)
(***************************************************************************)
Undefined == [type |-> "undefined", b |-> FALSE, n |-> 0, s |-> ""]
Null == [type |-> "null", b |-> FALSE, n |-> 0, s |-> ""]
Bool(x) == [type |-> "boolean", b |-> x, n |-> 0, s |-> ""]
Num(x) == [type |-> "number", b |-> FALSE, n |-> x, s |-> ""]
Str(x) == [type |-> "string", b |-> FALSE, n |-> 0, s |-> x]
\* an array of such values
Arr(xs) == [type |-> "array", items |-> xs]

\* ToBoolean: what `!!x` and `if (x)` read
Truthy(x) ==
  CASE x.type = "boolean" -> x.b
    [] x.type = "number" -> x.n # 0
    [] x.type = "string" -> x.s # ""
    [] x.type = "array" -> TRUE
    [] OTHER -> FALSE

\* generateRuleId(): `rule_${Date.now()}_${random}`, a fresh identifier; the
\* model keeps only that it is a generated one.
generateRuleId == "rule_generated"

\* 'rules' in item
IsGroup(item) == "rules" \in DOMAIN item

(***************************************************************************)
(* convertQueryToJSON / processRuleGroup.                                  *)
(***************************************************************************)
NullJSON == [isNull |-> TRUE]

invalidRuleEmptyValueKept(rule) ==
  \/ ~Truthy(rule.field)
  \/ rule.value = Undefined
  \/ rule.value = Null

\* !rule.field || rule.value === undefined || rule.value === null || rule.value === ''
invalidRule(rule) ==
  \/ ~Truthy(rule.field)
  \/ rule.value = Undefined
  \/ rule.value = Null
  \/ rule.value = Str("")

RuleJSON(rule) ==
  [field |-> rule.field, operator |-> rule.operator, value |-> rule.value,
   not |-> Bool(Truthy(rule.not))]

RECURSIVE processRuleGroup(_)
processRuleGroup(group) ==
  LET rs == SelectSeq(group.rules, LAMBDA item : ~IsGroup(item) /\ ~invalidRule(item))
      gs == SelectSeq(group.rules, IsGroup)
  IN [combinator |-> group.combinator,
      negated |-> Bool(Truthy(group.not)),
      rules |-> [i \in DOMAIN rs |-> RuleJSON(rs[i])],
      groups |-> [i \in DOMAIN gs |-> processRuleGroup(gs[i])]]

convertQueryToJSONUnguarded(q) == processRuleGroup(q)

convertQueryToJSON(q) ==
  IF Len(q.rules) = 0 THEN NullJSON ELSE processRuleGroup(q)

(***************************************************************************)
(* convertQueryJSONToRuleGroup (AdvancedFilterPanel).                      *)
(***************************************************************************)
RECURSIVE convertQueryJSONToRuleGroupNotDropped(_)
convertQueryJSONToRuleGroupNotDropped(json) ==
  [id |-> generateRuleId,
   combinator |-> json.combinator,
   not |-> Undefined,
   rules |->
     [i \in DOMAIN json.rules |->
        [id |-> generateRuleId, field |-> json.rules[i].field,
         operator |-> json.rules[i].operator, value |-> json.rules[i].value,
         not |-> json.rules[i].not]]
     \o [i \in DOMAIN json.groups |-> convertQueryJSONToRuleGroupNotDropped(json.groups[i])]]

RECURSIVE convertQueryJSONToRuleGroup(_)
convertQueryJSONToRuleGroup(json) ==
  [id |-> generateRuleId,
   combinator |-> json.combinator,
   not |-> json.negated,
   rules |->
     [i \in DOMAIN json.rules |->
        [id |-> generateRuleId, field |-> json.rules[i].field,
         operator |-> json.rules[i].operator, value |-> json.rules[i].value,
         not |-> json.rules[i].not]]
     \o [i \in DOMAIN json.groups |-> convertQueryJSONToRuleGroup(json.groups[i])]]

(***************************************************************************)
(* normalizeTagsRuleGroup (AdvancedFilterPanel).                           *)
(***************************************************************************)
\* The body of the map callback for a rule, with the operator test reduced
\* to absence.
normalizeRuleOperatorKept(item) ==
  LET rule == IF ~Truthy(item.field) THEN [item EXCEPT !.field = Str("tags")] ELSE item
  IN IF rule.field = Str("tags")
     THEN [rule EXCEPT
             !.operator = IF ~Truthy(rule.operator) THEN Str("in") ELSE rule.operator,
             !.value = IF rule.value.type = "array" THEN rule.value
                       ELSE IF Truthy(rule.value) THEN Arr(<<rule.value>>)
                       ELSE Arr(<<>>)]
     ELSE rule

\* The body of the map callback for a rule
normalizeRule(item) ==
  LET rule == IF ~Truthy(item.field) THEN [item EXCEPT !.field = Str("tags")] ELSE item
  IN IF rule.field = Str("tags")
     THEN [rule EXCEPT
             !.operator =
               IF ~Truthy(rule.operator)
                    \/ (rule.operator # Str("in") /\ rule.operator # Str("notIn"))
               THEN Str("in") ELSE rule.operator,
             \* Array.isArray(rule.value) ? rule.value : rule.value ? [rule.value] : []
             !.value = IF rule.value.type = "array" THEN rule.value
                       ELSE IF Truthy(rule.value) THEN Arr(<<rule.value>>)
                       ELSE Arr(<<>>)]
     ELSE rule

RECURSIVE normalizeTagsRuleGroup(_)
normalizeTagsRuleGroup(group) ==
  [group EXCEPT
     !.rules = [i \in DOMAIN group.rules |->
                  IF IsGroup(group.rules[i]) THEN normalizeTagsRuleGroup(group.rules[i])
                  ELSE normalizeRule(group.rules[i])]]

(***************************************************************************)
(* Inputs of applyFilters.  A song is one of two base songs with at most   *)
(* one field changed; a predicate has at most one matcher drawn from the   *)
(* whole domain of its field, and at most one more from a fixed few.       *)
(***************************************************************************)
TextFields == {"artist", "album", "genre"}
Features == {"energy", "valence", "danceability", "tempo"}
TagSlots == {"tag", "tag1", "tag2"}
MinOf(X) == X \o "_min"
MaxOf(X) == X \o "_max"
BoundFields == {MinOf(X) : X \in Features} \cup {MaxOf(X) : X \in Features}

OptStrings == {NoStr} \cup {SomeStr(s) : s \in Strings}
OptFeatures == {NoNum} \cup {SomeNum(n) : n \in 0..MaxFeature}
OptYears == {NoNum} \cup {SomeNum(y) : y \in Years}

\* interface Song (the fields applyFilters and the queue read)
BlankSong ==
  [id |-> 1, display_name |-> <<"a">>,
   artist |-> NoStr, album |-> NoStr, genre |-> NoStr, year |-> NoNum,
   tags |-> {},
   energy |-> NoNum, valence |-> NoNum, danceability |-> NoNum, tempo |-> NoNum]

FullSong ==
  [id |-> 2, display_name |-> <<"b">>,
   artist |-> SomeStr(<<"A", "b">>), album |-> SomeStr(<<"b">>),
   genre |-> SomeStr(<<"a">>), year |-> SomeNum(1999),
   tags |-> {"t1"},
   energy |-> SomeNum(1), valence |-> SomeNum(1),
   danceability |-> SomeNum(1), tempo |-> SomeNum(1)]

BaseSongs == {BlankSong, FullSong}

SongUniverse ==
  UNION {
    {[b EXCEPT ![k] = v] : k \in TextFields, v \in OptStrings}
    \cup {[b EXCEPT !.year = v] : v \in OptYears}
    \cup {[b EXCEPT !.tags = v] : v \in SUBSET TagNames}
    \cup {[b EXCEPT ![k] = v] : k \in Features, v \in OptFeatures}
    : b \in BaseSongs}

\* interface SongsFilters with every field undefined
EmptyFilters ==
  [tag |-> NoTag, tag1 |-> NoTag, tag2 |-> NoTag,
   display_name |-> NoStr, artist |-> NoStr, genre |-> NoStr, album |-> NoStr,
   year |-> NoNum,
   energy_min |-> NoNum, energy_max |-> NoNum,
   valence_min |-> NoNum, valence_max |-> NoNum,
   danceability_min |-> NoNum, danceability_max |-> NoNum,
   tempo_min |-> NoNum, tempo_max |-> NoNum]

FilterFields == DOMAIN EmptyFilters

PrimaryFilters ==
  {EmptyFilters}
  \cup {[EmptyFilters EXCEPT ![k] = SomeStr(s)] :
          k \in TextFields \cup {"display_name"}, s \in Strings}
  \cup {[EmptyFilters EXCEPT !.year = SomeNum(y)] : y \in Years \cup {0}}
  \cup {[EmptyFilters EXCEPT ![k] = SomeTag(t)] : k \in TagSlots, t \in TagNames \cup {""}}
  \cup {[EmptyFilters EXCEPT ![k] = SomeNum(n)] : k \in BoundFields, n \in 0..MaxFeature}

SecondaryFilters ==
  {EmptyFilters,
   [EmptyFilters EXCEPT !.genre = SomeStr(<<"a">>)],
   [EmptyFilters EXCEPT !.tag = SomeTag("t1")],
   [EmptyFilters EXCEPT !.energy_max = SomeNum(1)]}

\* Predicates with both bounds of one audio feature, in either order.
RangeFilters ==
  {[EmptyFilters EXCEPT ![MinOf(X)] = SomeNum(lo), ![MaxOf(X)] = SomeNum(hi)] :
     X \in Features, lo \in 0..MaxFeature, hi \in 0..MaxFeature}

FilterUniverse ==
  {[k \in FilterFields |-> IF q[k].some THEN q[k] ELSE p[k]] :
     p \in PrimaryFilters, q \in SecondaryFilters}
  \cup RangeFilters

FilterCatalogs ==
  {<<s>> : s \in SongUniverse} \cup {<<FullSong, s>> : s \in SongUniverse}

(***************************************************************************)
(* Inputs of generateQueue: three songs that the saved filters tell apart, *)
(* catalogs without repeated ids, manual songs with or without repeats.    *)
(***************************************************************************)
QueueSong1 ==
  [BlankSong EXCEPT !.id = 1, !.genre = SomeStr(<<"A", "b">>), !.tags = {"t1"},
                    !.energy = SomeNum(0)]
QueueSong2 ==
  [BlankSong EXCEPT !.id = 2, !.genre = SomeStr(<<"b">>), !.tags = {"t1", "t2"},
                    !.energy = SomeNum(1)]
QueueSong3 ==
  [BlankSong EXCEPT !.id = 3, !.tags = {"t2"}]

QueueSongs == {QueueSong1, QueueSong2, QueueSong3}

SavedFilters ==
  {EmptyFilters,
   [EmptyFilters EXCEPT !.genre = SomeStr(<<"a">>)],
   [EmptyFilters EXCEPT !.tag = SomeTag("t2")],
   [EmptyFilters EXCEPT !.energy_min = SomeNum(1)]}

DistinctIds(ss) == \A i, j \in DOMAIN ss : i # j => ss[i].id # ss[j].id

Catalogs == {c \in SeqsUpTo(QueueSongs, MaxCatalog) : DistinctIds(c)}

\* interface Playlist; the i-th saved filter has id i
Playlists ==
  {[id |-> 1,
    filters |-> [i \in DOMAIN fs |-> [id |-> i, filters |-> fs[i]]],
    manual_songs |-> ms] :
     fs \in SeqsUpTo(SavedFilters, MaxFilters), ms \in SeqsUpTo(QueueSongs, MaxManual)}

(***************************************************************************)
(* Inputs of the conversions: the rule-builder trees of at most MaxNodes   *)
(* nodes, over rules that are usable or lack a field, a value or a not.    *)
(***************************************************************************)
BaseRule ==
  [id |-> "ui", field |-> Str("artist"), operator |-> Str("="),
   value |-> Str("x"), not |-> Bool(FALSE)]

Rules ==
  {BaseRule,
   [id |-> "ui", field |-> Str("genre"), operator |-> Str("contains"),
    value |-> Num(0), not |-> Bool(TRUE)],
   [BaseRule EXCEPT !.value = Str("")],
   [BaseRule EXCEPT !.value = Null],
   [BaseRule EXCEPT !.value = Undefined],
   [BaseRule EXCEPT !.field = Str("")],
   [BaseRule EXCEPT !.not = Undefined]}

RECURSIVE RuleGroups(_), ChildLists(_), NodeCount(_)

\* The number of nodes of a rule or group.
NodeCount(item) ==
  IF IsGroup(item)
  THEN LET sum[i \in 0..Len(item.rules)] ==
             IF i = 0 THEN 0 ELSE sum[i - 1] + NodeCount(item.rules[i])
       IN 1 + sum[Len(item.rules)]
  ELSE 1

\* The lists of rules and groups of at most m nodes in all.
ChildLists(m) ==
  {<<>>} \cup
  UNION {{<<item>> \o rest : rest \in ChildLists(m - NodeCount(item))} :
           item \in IF m < 1 THEN {} ELSE Rules \cup RuleGroups(m)}

\* The groups (RuleGroupType) of at most n nodes.
RuleGroups(n) ==
  IF n < 1 THEN {}
  ELSE {[id |-> "ui", combinator |-> c, not |-> b, rules |-> ch] :
          c \in {"and", "or"}, b \in {Bool(TRUE), Bool(FALSE), Undefined},
          ch \in ChildLists(n - 1)}

(***************************************************************************)
(* Inputs of normalizeTagsRuleGroup: the trees of at most MaxNodes nodes   *)
(* over rules on the tag field, on another field or on none, with every    *)
(* kind of operator and of value.                                          *)
(***************************************************************************)
TagFields == {Str("tags"), Str("artist"), Str("")}
TagOperators == {Str("in"), Str("notIn"), Str("="), Undefined}
TagValues ==
  {Str("t1"), Str(""), Undefined, Null, Num(0), Num(1), Bool(FALSE),
   Arr(<<>>), Arr(<<Str("t1")>>)}

\* Rules with any field and operator, rules on 'tags' with any value, a rule
\* with nothing set and a rule on another field with the value 0.
TagRules ==
  {[id |-> "ui", field |-> f, operator |-> o, value |-> Str("t1"), not |-> Bool(FALSE)] :
     f \in TagFields, o \in TagOperators}
  \cup {[id |-> "ui", field |-> Str("tags"), operator |-> Str("="), value |-> v,
         not |-> Bool(TRUE)] : v \in TagValues}
  \cup {[id |-> "ui", field |-> Undefined, operator |-> Undefined, value |-> Undefined,
         not |-> Bool(FALSE)],
        [id |-> "ui", field |-> Str("artist"), operator |-> Str("="), value |-> Num(0),
         not |-> Bool(FALSE)]}

RECURSIVE TagRuleGroups(_), TagChildLists(_)

TagChildLists(m) ==
  {<<>>} \cup
  UNION {{<<item>> \o rest : rest \in TagChildLists(m - NodeCount(item))} :
           item \in IF m < 1 THEN {} ELSE TagRules \cup TagRuleGroups(m)}

TagRuleGroups(n) ==
  IF n < 1 THEN {}
  ELSE {[id |-> "ui", combinator |-> c, not |-> b, rules |-> ch] :
          c \in {"and", "or"}, b \in {Bool(TRUE), Undefined},
          ch \in TagChildLists(n - 1)}

(***************************************************************************)
(* QueueColumn over MusicProvider.  A handler and the effects that React   *)
(* runs after it are one step.  A render is the record of what the effects *)
(* read and write; an effect runs when one of its dependencies differs     *)
(* from the previous render's (Object.is).  The identity of the array     *)
(* currentPlaylist.filters is filtersRef: the array of the saved playlist  *)
(* with id i has identity i, an array made by a handler a fresh identity.  *)
(* Object identity of songs is taken to be equality of values.             *)
(***************************************************************************)
NullPlaylist == [isNull |-> TRUE]
NullSong == [isNull |-> TRUE]

\* array.findIndex(P): the first index (from 0) whose element satisfies P, or -1
FindIndex(arr, P(_)) ==
  IF \E i \in DOMAIN arr : P(arr[i])
  THEN (CHOOSE i \in DOMAIN arr : P(arr[i]) /\ \A j \in 1..(i - 1) : ~P(arr[j])) - 1
  ELSE -1

\* arrayMove(items, from, to) of @dnd-kit/sortable, indices from 0
arrayMove(items, from, to) ==
  LET rest == [i \in 1..(Len(items) - 1) |-> IF i <= from THEN items[i] ELSE items[i + 1]]
  IN [i \in 1..Len(items) |->
        IF i = to + 1 THEN items[from + 1]
        ELSE IF i <= to THEN rest[i] ELSE rest[i - 1]]

Render ==
  [playlist |-> currentPlaylist, ref |-> filtersRef,
   loaded |-> songsLoaded, all |-> allSongs,
   song |-> currentSong, queue |-> queueItems, pos |-> currentPosition]

\* [currentPlaylist?.id, currentPlaylist?.filters, songsLoaded]
queueDeps(r) ==
  IF r.playlist = NullPlaylist THEN <<FALSE, 0, 0, r.loaded>>
  ELSE <<TRUE, r.playlist.id, r.ref, r.loaded>>

\* The effect "Generate queue when playlist changes or when songs are loaded"
generateQueueEffect(r) ==
  IF r.playlist # NullPlaylist /\ r.loaded /\ Len(r.all) > 0
  THEN [r EXCEPT !.queue = generateQueue(r.playlist, r.all), !.pos = 0]
  ELSE IF r.playlist = NullPlaylist
  THEN [r EXCEPT !.queue = <<>>, !.pos = 0]
  ELSE r

\* The effect "Mark current song in queue": r is the render the effect
\* closes over, w the state its updates apply to.
markCurrentEffect(r, w) ==
  IF r.song # NullSong /\ Len(r.queue) > 0
  THEN LET currentIndex == FindIndex(r.queue, LAMBDA item : item.song.id = r.song.id)
       IN [w EXCEPT
             !.queue = [i \in DOMAIN w.queue |->
                          [w.queue[i] EXCEPT !.is_current = (w.queue[i].song.id = r.song.id),
                                             !.position = i - 1]],
             !.pos = IF currentIndex >= 0 THEN currentIndex ELSE w.pos]
  ELSE w

\* The effects of one commit: prev is the previous render, r this one.
runEffects(prev, r) ==
  LET afterGenerate ==
        IF queueDeps(prev) # queueDeps(r) THEN generateQueueEffect(r) ELSE r
  IN IF prev.song # r.song \/ Len(prev.queue) # Len(r.queue)
     THEN markCurrentEffect(r, afterGenerate)
     ELSE afterGenerate

\* Renders and effects until no state changes.
RECURSIVE settle(_, _)
settle(prev, r) ==
  LET next == runEffects(prev, r)
  IN IF next = r THEN r ELSE settle(r, next)

\* The step to render r, its effects included, by handler op.
Commit(r, op) ==
  \E final \in {settle(Render, r)} :
     /\ currentPlaylist' = final.playlist
     /\ filtersRef' = final.ref
     /\ songsLoaded' = final.loaded
     /\ allSongs' = final.all
     /\ currentSong' = final.song
     /\ queueItems' = final.queue
     /\ currentPosition' = final.pos
     /\ lastOp' = op

(***************************************************************************)
(* MusicPlayer over MusicProvider and its audio element.  A render of      *)
(* MusicPlayer is the record of what its effects read; the fields paused,  *)
(* pending and media are the audio element's, which effects read and write *)
(* at once, while hasError changes with the next render.                   *)
(***************************************************************************)
PlayerRender ==
  [song |-> currentSong, playing |-> isPlaying, error |-> hasError,
   paused |-> audioPaused, pending |-> playPending, media |-> media]

\* The effect "Update current time and handle audio events": provider is
\* TRUE when MusicProvider rendered again, its togglePlayPause a new function.
audioEventsEffect(prev, r, provider, w) ==
  IF (provider \/ prev.song # r.song \/ prev.playing # r.playing) /\ r.song # NullSong
  THEN [w EXCEPT !.error = FALSE]
  ELSE w

\* The effect on [currentSong]: audio.pause() or audio.load()
loadEffect(prev, r, w) ==
  IF prev.song = r.song THEN w
  ELSE IF r.song = NullSong
  THEN [w EXCEPT !.paused = TRUE, !.error = FALSE, !.media = "none"]
  ELSE [w EXCEPT !.paused = TRUE, !.media = "loading"]

\* The effect "Sync audio element with context playing state"
syncEffect(prev, r, w) ==
  IF prev.playing = r.playing /\ prev.error = r.error THEN w
  ELSE IF r.error \/ r.song = NullSong THEN w
  ELSE IF r.playing /\ w.paused THEN [w EXCEPT !.paused = FALSE, !.pending = TRUE]
  ELSE IF ~r.playing /\ ~w.paused THEN [w EXCEPT !.paused = TRUE]
  ELSE w

playerEffects(prev, r, provider) ==
  syncEffect(prev, r, loadEffect(prev, r, audioEventsEffect(prev, r, provider, r)))

\* Renders of MusicPlayer and their effects until no state changes.
RECURSIVE settlePlayer(_, _, _)
settlePlayer(prev, r, provider) ==
  LET next == playerEffects(prev, r, provider)
  IN IF next = r THEN r ELSE settlePlayer(r, next, FALSE)

\* The step of MusicPlayer to render r, its effects included.
PlayerCommit(r, provider) ==
  \E final \in {settlePlayer(PlayerRender, r, provider)} :
     /\ hasError' = final.error
     /\ audioPaused' = final.paused
     /\ playPending' = final.pending
     /\ media' = final.media

\* playSong(song) re-renders MusicProvider when it changes its state.
playSongRenders(song) == song # currentSong \/ ~isPlaying \/ ~isPlayerVisible

playQueueItemPositionKept(item, op) ==
  /\ Commit([Render EXCEPT !.song = item.song], op)
  /\ isPlaying' = TRUE
  /\ isPlayerVisible' = TRUE
  /\ PlayerCommit([PlayerRender EXCEPT !.song = item.song, !.playing = TRUE],
                  playSongRenders(item.song))
  /\ erroredSong' = IF item.song = currentSong THEN erroredSong ELSE NullSong

\* playQueueItem(item), with playSong(item.song) of MusicProvider
playQueueItem(item, op) ==
  LET index == FindIndex(queueItems, LAMBDA qi : qi.id = item.id)
  IN /\ Commit([Render EXCEPT !.song = item.song,
                              !.pos = IF index >= 0 THEN index ELSE @], op)
     /\ isPlaying' = TRUE
     /\ isPlayerVisible' = TRUE
     /\ PlayerCommit([PlayerRender EXCEPT !.song = item.song, !.playing = TRUE],
                     playSongRenders(item.song))
     /\ erroredSong' = IF item.song = currentSong THEN erroredSong ELSE NullSong

\* playNext: the values nextIndex may take before `const nextItem`, none
\* where playNext returns at "End of queue".
nextIndexShuffleFirst(position, length, options) ==
  IF options.shuffle THEN 0..(length - 1)
  ELSE IF options.repeat = "one" THEN {position}
  ELSE IF position + 1 >= length
  THEN (IF options.repeat = "all" THEN {0} ELSE {})
  ELSE {position + 1}

nextIndexAlwaysWraps(position, length, options) ==
  LET sequential ==
        IF options.repeat = "one" THEN {position}
        ELSE IF position + 1 >= length THEN {0}
        ELSE {position + 1}
  IN IF options.shuffle /\ options.repeat # "one"
     THEN 0..(length - 1)
     ELSE sequential

nextIndexNeverWraps(position, length, options) ==
  LET sequential ==
        IF options.repeat = "one" THEN {position}
        ELSE IF position + 1 >= length THEN {}
        ELSE {position + 1}
  IN IF sequential = {} THEN {}
     ELSE IF options.shuffle /\ options.repeat # "one"
     THEN 0..(length - 1)
     ELSE sequential

nextIndex(position, length, options) ==
  LET sequential ==
        IF options.repeat = "one" THEN {position}
        ELSE IF position + 1 >= length
        THEN (IF options.repeat = "all" THEN {0} ELSE {})
        ELSE {position + 1}
  IN IF sequential = {} THEN {}
     ELSE IF options.shuffle /\ options.repeat # "one"
     THEN 0..(length - 1)    \* Math.floor(Math.random() * queueItems.length)
     ELSE sequential

\* playPrevious: the value of prevIndex before `const prevItem`
prevIndexRepeatOne(position, length, options) ==
  IF options.repeat = "one" THEN position
  ELSE IF position - 1 < 0
  THEN (IF options.repeat = "all" THEN length - 1 ELSE 0)
  ELSE position - 1

prevIndex(position, length, options) ==
  IF position - 1 < 0
  THEN (IF options.repeat = "all" THEN length - 1 ELSE 0)
  ELSE position - 1

ReturnsPaused(op) ==
  /\ lastOp' = op
  /\ isPlaying' = FALSE
  /\ UNCHANGED <<currentPlaylist, filtersRef, songsLoaded, allSongs, queueItems, currentPosition,
                 currentSong, isPlayerVisible, playerVars>>

\* A handler that returns without setting any state.
Returns(op) ==
  /\ lastOp' = op
  /\ UNCHANGED <<currentPlaylist, filtersRef, songsLoaded, allSongs, queueItems, currentPosition,
                 currentSong, isPlaying, isPlayerVisible, playerVars>>

(***************************************************************************)
(* useTagMutations over the query cache.  The cache holds the data of the  *)
(* song list queries, QUERY_KEYS.songs.list(undefined) and one list with a *)
(* filter; a list query that has not resolved has no data.  A cached song  *)
(* is its id and its tags, an array of Tag (id and name).                  *)
(***************************************************************************)
ListKeys == {"list", "listFiltered"}
TagIds == {1, 2}
SongIds == {1, 2}

Tag(id, name) == [id |-> id, name |-> name]
CachedSong(id, tags) == [id |-> id, tags |-> tags]

\* The map callback of addTagToSong.onSuccess
addTagToCachedSong(song, songId, tag) ==
  IF song.id # songId THEN song
  ELSE LET existingIndex == FindIndex(song.tags, LAMBDA t : t.id = tag.id)
       IN [song EXCEPT
             !.tags = IF existingIndex = -1 THEN Append(song.tags, tag)
                      ELSE [k \in DOMAIN song.tags |->
                              IF k - 1 = existingIndex THEN tag ELSE song.tags[k]]]

removeTagFromCachedSongKept(song, songId, tagId) == song

\* The map callback of removeTagFromSong.onSuccess
removeTagFromCachedSong(song, songId, tagId) ==
  IF song.id = songId
  THEN [song EXCEPT !.tags = SelectSeq(song.tags, LAMBDA t : t.id # tagId)]
  ELSE song

\* addTagToSong.onSuccess(data, variables): every list with data is replaced
addTagOnSuccess(cache, songId, tag) ==
  [key \in DOMAIN cache |->
     IF cache[key].hasData
     THEN [cache[key] EXCEPT
             !.data = [i \in DOMAIN cache[key].data |->
                         addTagToCachedSong(cache[key].data[i], songId, tag)]]
     ELSE cache[key]]

\* removeTagFromSong.onSuccess(data, variables)
removeTagOnSuccess(cache, songId, tagId) ==
  [key \in DOMAIN cache |->
     IF cache[key].hasData
     THEN [cache[key] EXCEPT
             !.data = [i \in DOMAIN cache[key].data |->
                         removeTagFromCachedSong(cache[key].data[i], songId, tagId)]]
     ELSE cache[key]]

(***************************************************************************)
(* Values of the variables a specification does not use.                   *)
(***************************************************************************)
NoPlaylist == [id |-> 0, filters |-> <<>>, manual_songs |-> <<>>]
IdleFilter == songs = <<>> /\ filters = EmptyFilters /\ filtered = <<>>
IdleGen == playlist = NoPlaylist /\ allSongs = <<>> /\ generatedQueue = <<>>
EmptyQuery == [combinator |-> "and", rules |-> <<>>]
IdleQuery == query = EmptyQuery /\ queryJSON = NullJSON /\ roundTrip = EmptyQuery
IdleNorm ==
  /\ incomingQuery = EmptyQuery /\ normalizedQuery = EmptyQuery
  /\ renormalizedQuery = EmptyQuery
\* no song list query has data
EmptyCache == [key \in ListKeys |-> [hasData |-> FALSE, data |-> <<>>]]
IdleCache ==
  /\ songsCache = EmptyCache /\ pendingMutations = {}
  /\ issuedMutations = <<>> /\ arrivedResponses = <<>>
\* PlaylistColumn with the saved playlists listed, nothing being renamed or
\* deleted
IdleColumn ==
  /\ savedPlaylistIds = {1, 2, 3}
  /\ editingPlaylistId = 0 /\ renamePending = 0 /\ deletePending = 0
\* defaultQuery of AdvancedFilterPanel; its missing `not` reads undefined
DefaultPanelQuery == [id |-> "ui", combinator |-> "and", not |-> Undefined, rules |-> <<>>]
NullFilter == [isNull |-> TRUE]
IdlePanel ==
  /\ panelQuery = DefaultPanelQuery /\ libraryQuery = NullJSON
  /\ isQueryBuilderUpdate = FALSE /\ notified = FALSE
  /\ editingFilter = NullFilter
DefaultOptions == [shuffle |-> FALSE, repeat |-> "none", autoplay |-> TRUE]
IdleSeq ==
  /\ currentPlaylist = NullPlaylist /\ filtersRef = 0
  /\ songsLoaded = FALSE /\ queueItems = <<>>
  /\ currentPosition = 0 /\ playlistOptions = DefaultOptions
  /\ currentSong = NullSong /\ isPlaying = FALSE /\ isPlayerVisible = FALSE
  /\ hasError = FALSE /\ audioPaused = TRUE /\ playPending = FALSE /\ media = "none"
  /\ erroredSong = NullSong
  /\ lastOp = "other"

(***************************************************************************)
(* The specification of applyFilters: one call on each input.              *)
(***************************************************************************)
InitFilter ==
  /\ pc = "call"
  /\ songs \in FilterCatalogs
  /\ filters \in FilterUniverse
  /\ filtered = <<>>
  /\ IdleGen /\ IdleQuery /\ IdleNorm /\ IdleCache /\ IdleColumn /\ IdlePanel /\ IdleSeq

ApplyFiltersCall ==
  /\ pc = "call"
  /\ filtered' = applyFilters(songs, filters)
  /\ pc' = "done"
  /\ UNCHANGED <<songs, filters, genVars, queryVars, normVars, cacheVars, columnVars, panelVars, seqVars>>

NextFilter == ApplyFiltersCall

SpecFilter == InitFilter /\ [][NextFilter]_vars

(***************************************************************************)
(* Claims about applyFilters (specification SpecFilter).                   *)
(***************************************************************************)
\* Two characters are the same letter, whatever their case.
SameLetter(c, d) == c = d \/ {c, d} = {"a", "A"}

\* v occurs in s as a substring, comparing letters without regard to case.
ContainsIgnoringCase(s, v) ==
  \E i \in 0..(Len(s) - Len(v)) :
    \A k \in 1..Len(v) : SameLetter(s[i + k], v[k])

\* Only the free-text field k of the predicate f is set, to a non-empty string.
OnlyTextSet(f, k) ==
  /\ f[k].some /\ f[k].v # <<>>
  /\ \A j \in FilterFields \ {k} : ~f[j].some

\* C4: when only one free-text field (artist, album or genre) of the predicate
\* is set, to a non-empty string v, applyFilters returns exactly the songs, in
\* order, whose field is non-null and contains v case-insensitively; a song
\* whose field is null is never kept.
C4_TextMatcher ==
  pc = "done" =>
    \A k \in TextFields :
      OnlyTextSet(filters, k) =>
        filtered = SelectSeq(songs,
                     LAMBDA S : S[k].some /\ ContainsIgnoringCase(S[k].v, filters[k].v))

\* C4 witness: a call with only a text matcher set that kept a song whose
\* field contains the matcher only when case is ignored, and dropped a song
\* whose field is null or does not contain it.
C4_Witness ==
  /\ pc = "done"
  /\ \E k \in TextFields :
       /\ OnlyTextSet(filters, k)
       /\ Len(songs) = 2 /\ Len(filtered) = 1
       /\ ~includes(filtered[1][k].v, filters[k].v)

\* C5: for each audio feature X and each bound X_min or X_max that the
\* predicate defines (0 included), no song whose X is null is returned.
C5_NullFeatureExcluded ==
  pc = "done" =>
    \A X \in Features :
      (filters[MinOf(X)].some \/ filters[MaxOf(X)].some) =>
        \A i \in DOMAIN filtered : filtered[i][X].some

\* C5 witness: a call with a bound of 0 on a feature, and nothing else, on a
\* catalog holding a song whose feature is null; that song was dropped.
C5_Witness ==
  /\ pc = "done"
  /\ \E X \in Features : \E b \in {MinOf(X), MaxOf(X)} :
       /\ filters = [EmptyFilters EXCEPT ![b] = SomeNum(0)]
       /\ \E i \in DOMAIN songs : ~songs[i][X].some
       /\ Len(filtered) < Len(songs)

\* The predicate f without its matcher on field k.
Without(f, k) == [f EXCEPT ![k] = EmptyFilters[k]]

\* Array a holds, in the order of b, elements of b only.
KeptFrom(a, b) == a = SelectSeq(b, LAMBDA x : x \in Range(a))

\* C19: a predicate with no field set keeps every song in catalog order, and
\* the result of a predicate holds, in order, only songs of the result of the
\* same predicate without any one of its matchers: a matcher added to a
\* predicate removes songs and adds none.
C19_AbsentFieldsNotTested ==
  pc = "done" =>
    /\ (\A k \in FilterFields : ~filters[k].some) => filtered = songs
    /\ \A k \in FilterFields :
         filters[k].some => KeptFrom(filtered, applyFilters(songs, Without(filters, k)))

\* C19 witness: a call with two matchers set, one of which removed a song
\* that the predicate without it keeps.
C19_Witness ==
  /\ pc = "done"
  /\ Cardinality({k \in FilterFields : filters[k].some}) = 2
  /\ \E k \in FilterFields :
       /\ filters[k].some
       /\ Len(filtered) = 1
       /\ Len(applyFilters(songs, Without(filters, k))) = 2

\* C20: a predicate with only display_name set, to a non-empty string, keeps
\* exactly the songs whose display name contains it, as for artist, album
\* and genre.
C20_DisplayNameMatcher ==
  pc = "done" =>
    (OnlyTextSet(filters, "display_name") =>
       filtered = SelectSeq(songs,
                    LAMBDA S : ContainsIgnoringCase(S.display_name, filters.display_name.v)))

\* The predicate f has both bounds of feature X, the lower above the upper.
Inverted(f, X) ==
  /\ f[MinOf(X)].some /\ f[MaxOf(X)].some
  /\ f[MinOf(X)].v > f[MaxOf(X)].v

\* C21: a predicate whose lower bound on an audio feature (energy, valence,
\* danceability or tempo) is above its upper bound keeps no song, whatever
\* the song's value of the feature, null or a number.
C21_InvertedRangeKeepsNothing ==
  pc = "done" =>
    \A X \in Features : Inverted(filters, X) => filtered = <<>>

\* C21 witness: a call with an inverted range on a feature and nothing else,
\* on a catalog with a song lacking the feature and a song whose feature is
\* at the lower bound; nothing was kept.
C21_Witness ==
  /\ pc = "done"
  /\ \E X \in Features :
       /\ Inverted(filters, X)
       /\ \A k \in FilterFields \ {MinOf(X), MaxOf(X)} : ~filters[k].some
       /\ \E i \in DOMAIN songs : ~songs[i][X].some
       /\ \E i \in DOMAIN songs : songs[i][X].some /\ songs[i][X].v = filters[MinOf(X)].v
  /\ filtered = <<>>

(***************************************************************************)
(* The specification of generateQueue: one call on each input.             *)
(***************************************************************************)
InitGen ==
  /\ pc = "call"
  /\ playlist \in Playlists
  /\ allSongs \in Catalogs
  /\ generatedQueue = <<>>
  /\ IdleFilter /\ IdleQuery /\ IdleNorm /\ IdleCache /\ IdleColumn /\ IdlePanel /\ IdleSeq

GenerateQueueCall ==
  /\ pc = "call"
  /\ generatedQueue' = generateQueue(playlist, allSongs)
  /\ pc' = "done"
  /\ UNCHANGED <<playlist, allSongs, filterVars, queryVars, normVars, cacheVars, columnVars, panelVars, seqVars>>

NextGen == GenerateQueueCall

SpecGen == InitGen /\ [][NextGen]_vars

(***************************************************************************)
(* Claims about generateQueue (specification SpecGen).                     *)
(***************************************************************************)
\* C1: the queue generateQueue returns holds no two items with the same
\* song id, whatever the saved filters, the manual songs and the catalog.
C1_NoDuplicateSong ==
  pc = "done" =>
    \A i, j \in DOMAIN generatedQueue :
      i # j => generatedQueue[i].song.id # generatedQueue[j].song.id

\* C1 witness: a call whose playlist lists a manual song twice, that song
\* also matching two saved filters, and whose queue holds that song.
C1_Witness ==
  /\ pc = "done"
  /\ Len(playlist.filters) = 2
  /\ \E i, j \in DOMAIN playlist.manual_songs :
       /\ i # j
       /\ playlist.manual_songs[i] = playlist.manual_songs[j]
       /\ \A k \in DOMAIN playlist.filters :
            playlist.manual_songs[i] \in Range(applyFilters(allSongs, playlist.filters[k].filters))
       /\ \E q \in DOMAIN generatedQueue :
            generatedQueue[q].song = playlist.manual_songs[i]

\* The candidates in scan order: for each saved filter in playlist order the
\* songs of the catalog that match it, in catalog order, then the manual songs.
RECURSIVE FilterCandidates(_, _)
FilterCandidates(fs, all) ==
  IF fs = <<>> THEN <<>>
  ELSE LET m == applyFilters(all, Head(fs).filters)
       IN [i \in DOMAIN m |->
             [song |-> m[i], added_via |-> "filter", filter_id |-> SomeFilterId(Head(fs).id)]]
           \o FilterCandidates(Tail(fs), all)

Candidates(pl, all) ==
  FilterCandidates(pl.filters, all)
  \o [i \in DOMAIN pl.manual_songs |->
        [song |-> pl.manual_songs[i], added_via |-> "manual", filter_id |-> NoFilterId]]

\* The indices of the first occurrence of each song id in c.
FirstOccurrences(c) ==
  {i \in DOMAIN c : \A j \in 1..(i - 1) : c[j].song.id # c[i].song.id}

\* The reference queue: the first occurrences, numbered from 0.
ReferenceQueue(pl, all) ==
  LET c == Candidates(pl, all)
      first == FirstOccurrences(c)
      nth(k) == CHOOSE i \in first : Cardinality({j \in first : j <= i}) = k
  IN [k \in 1..Cardinality(first) |->
        [song |-> c[nth(k)].song, position |-> k - 1,
         added_via |-> c[nth(k)].added_via, filter_id |-> c[nth(k)].filter_id]]

\* C2: generateQueue returns the reference queue: same songs in the same
\* order, each with the provenance of its first occurrence and with
\* position = its index from 0.
C2_ReferenceQueue ==
  pc = "done" =>
    [k \in DOMAIN generatedQueue |->
       [song |-> generatedQueue[k].song, position |-> generatedQueue[k].position,
        added_via |-> generatedQueue[k].added_via,
        filter_id |-> generatedQueue[k].filter_id]]
    = ReferenceQueue(playlist, allSongs)

\* C2 witness: a filter matched two songs, the manual songs are the second of
\* them and a third song; the queue is [filter, filter, manual].
C2_Witness ==
  /\ pc = "done"
  /\ Len(generatedQueue) = 3
  /\ Len(playlist.manual_songs) = 2
  /\ playlist.manual_songs[1] = generatedQueue[2].song
  /\ playlist.manual_songs[2] = generatedQueue[3].song
  /\ generatedQueue[1].added_via = "filter"
  /\ generatedQueue[2].added_via = "filter"
  /\ generatedQueue[3].added_via = "manual"
  /\ ~generatedQueue[3].filter_id.some

(***************************************************************************)
(* The specification of the conversions: convertQueryToJSON on each tree,  *)
(* then convertQueryJSONToRuleGroup on its result when that is a QueryJSON.*)
(***************************************************************************)
InitQuery ==
  /\ pc = "call"
  /\ query \in RuleGroups(MaxNodes)
  /\ queryJSON = NullJSON
  /\ roundTrip = EmptyQuery
  /\ IdleFilter /\ IdleGen /\ IdleNorm /\ IdleCache /\ IdleColumn /\ IdlePanel /\ IdleSeq

ConvertQueryToJSONCall ==
  /\ pc = "call"
  /\ queryJSON' = convertQueryToJSON(query)
  /\ pc' = "json"
  /\ UNCHANGED <<query, roundTrip, filterVars, genVars, normVars, cacheVars, columnVars, panelVars, seqVars>>

ConvertQueryJSONToRuleGroupCall ==
  /\ pc = "json"
  /\ queryJSON # NullJSON
  /\ roundTrip' = convertQueryJSONToRuleGroup(queryJSON)
  /\ pc' = "done"
  /\ UNCHANGED <<query, queryJSON, filterVars, genVars, normVars, cacheVars, columnVars, panelVars, seqVars>>

NextQuery == ConvertQueryToJSONCall \/ ConvertQueryJSONToRuleGroupCall

SpecQuery == InitQuery /\ [][NextQuery]_vars

(***************************************************************************)
(* Claims about the conversions (specification SpecQuery).                 *)
(***************************************************************************)
BagOfSeq(sq) == [x \in Range(sq) |-> Cardinality({i \in DOMAIN sq : sq[i] = x})]

\* A rule whose field is set and whose value is not '', undefined or null.
UsableRule(rule) ==
  /\ Truthy(rule.field)
  /\ rule.value \notin {Str(""), Undefined, Null}

\* A tree without its identifiers and without the order of its children:
\* combinator, negation, the multiset of its rules (of its usable rules
\* only, when usableOnly) and the multiset of its sub-groups, each taken
\* the same way.
RECURSIVE Shape(_, _)
Shape(tree, usableOnly) ==
  LET rs == SelectSeq(tree.rules,
              LAMBDA item : ~IsGroup(item) /\ (usableOnly => UsableRule(item)))
      gs == SelectSeq(tree.rules, IsGroup)
  IN [combinator |-> tree.combinator,
      negated |-> Truthy(tree.not),
      rules |-> BagOfSeq([i \in DOMAIN rs |->
                            [field |-> rs[i].field, operator |-> rs[i].operator,
                             value |-> rs[i].value, not |-> Truthy(rs[i].not)]]),
      groups |-> BagOfSeq([i \in DOMAIN gs |-> Shape(gs[i], usableOnly)])]

\* Some rule of the tree, at any depth, has a non-empty value.
RECURSIVE HasValuedRule(_)
HasValuedRule(tree) ==
  \E i \in DOMAIN tree.rules :
    IF IsGroup(tree.rules[i]) THEN HasValuedRule(tree.rules[i])
    ELSE tree.rules[i].value \notin {Str(""), Undefined, Null}

\* Some rule of the tree, at any depth, is usable.
RECURSIVE HasUsableRule(_)
HasUsableRule(tree) ==
  \E i \in DOMAIN tree.rules :
    IF IsGroup(tree.rules[i]) THEN HasUsableRule(tree.rules[i])
    ELSE UsableRule(tree.rules[i])

\* C6, as claimed: the round trip of a tree with at least one rule with a
\* non-empty value has, at every node, the same combinator, negation,
\* multiset of rules and multiset of sub-groups as the tree.
C6_RoundTripKeepsEveryRule ==
  (pc = "done" /\ HasValuedRule(query)) =>
    Shape(roundTrip, FALSE) = Shape(query, FALSE)

\* C6, amended: the round trip of such a tree has, at every node, the same
\* combinator, negation and multiset of sub-groups as the tree, and the
\* multiset of those rules of the tree that have a field and a value that
\* is not '', undefined or null; the other rules are dropped.
C6_RoundTripKeepsUsableRules ==
  (pc = "done" /\ HasValuedRule(query)) =>
    Shape(roundTrip, FALSE) = Shape(query, TRUE)

\* C6 witness: a round trip of a negated tree holding a usable rule and a
\* rule with an empty value, which came back with the usable rule alone.
C6_Witness ==
  /\ pc = "done"
  /\ Truthy(query.not)
  /\ Len(query.rules) = 2
  /\ \E i, j \in DOMAIN query.rules :
       /\ ~IsGroup(query.rules[i]) /\ UsableRule(query.rules[i])
       /\ ~IsGroup(query.rules[j]) /\ query.rules[j].value = Str("")
  /\ Len(roundTrip.rules) = 1

\* C7: convertQueryToJSON returns null for a tree with zero rules and zero
\* groups, whatever its combinator and negation.
C7_EmptyTreeIsNull ==
  (pc # "call" /\ Len(query.rules) = 0) => queryJSON = NullJSON

\* C7 witness: convertQueryToJSON was called on an empty negated `or` tree.
C7_Witness ==
  /\ pc = "json"
  /\ query.rules = <<>>
  /\ query.combinator = "or"
  /\ Truthy(query.not)

\* C8: convertQueryToJSON returns null for every tree without a usable rule
\* at any depth, and never a QueryJSON that carries no usable rule.
C8_NoUsableRuleIsNull ==
  (pc # "call" /\ ~HasUsableRule(query)) => queryJSON = NullJSON

\* Every rule of the backend form json, at every depth, has a non-empty
\* field and a value that is not '', undefined or null.
RECURSIVE NoUnspecifiedRule(_)
NoUnspecifiedRule(json) ==
  /\ \A i \in DOMAIN json.rules :
       /\ json.rules[i].field.type = "string" /\ json.rules[i].field.s # ""
       /\ json.rules[i].value \notin {Str(""), Undefined, Null}
  /\ \A i \in DOMAIN json.groups : NoUnspecifiedRule(json.groups[i])

\* The backend form json holds, at every node of tree and in the order of
\* the tree, each usable rule of the node and each group of the node.
RECURSIVE KeepsAllButUnspecified(_, _)
KeepsAllButUnspecified(json, tree) ==
  LET rs == SelectSeq(tree.rules, LAMBDA item : ~IsGroup(item) /\ UsableRule(item))
      gs == SelectSeq(tree.rules, IsGroup)
  IN /\ Len(json.rules) = Len(rs)
     /\ \A i \in DOMAIN rs :
          /\ json.rules[i].field = rs[i].field
          /\ json.rules[i].operator = rs[i].operator
          /\ json.rules[i].value = rs[i].value
     /\ Len(json.groups) = Len(gs)
     /\ \A i \in DOMAIN gs : KeepsAllButUnspecified(json.groups[i], gs[i])

\* C22: the backend form made by convertQueryToJSON has, at every depth, no
\* rule with an empty field or with a value that is '', undefined or null;
\* the rules of the tree lacking a field or a value are skipped, and every
\* other rule and every group of the same node is kept.
C22_NoUnspecifiedRule ==
  (pc # "call" /\ queryJSON # NullJSON) =>
    /\ NoUnspecifiedRule(queryJSON)
    /\ KeepsAllButUnspecified(queryJSON, query)

\* C22 witness: convertQueryToJSON was called on a tree whose root holds a
\* rule without a value and one more item, a usable rule or a group; the
\* backend form holds that item and nothing else.
C22_Witness ==
  /\ pc = "json"
  /\ Len(query.rules) = 2
  /\ \E i, j \in DOMAIN query.rules :
       /\ ~IsGroup(query.rules[i]) /\ ~UsableRule(query.rules[i])
       /\ i # j
       /\ IsGroup(query.rules[j]) \/ UsableRule(query.rules[j])
  /\ queryJSON # NullJSON
  /\ Len(queryJSON.rules) + Len(queryJSON.groups) = 1

(***************************************************************************)
(* The specification of the tag normalization: normalizeTagsRuleGroup on   *)
(* each tree, as the filters effect and handleQueryChange call it, then on *)
(* its own result, as handleQueryChange does with a tree of the builder    *)
(* that was built from the normalized state.                               *)
(***************************************************************************)
InitNormalize ==
  /\ pc = "call"
  /\ incomingQuery \in TagRuleGroups(MaxNodes)
  /\ normalizedQuery = EmptyQuery
  /\ renormalizedQuery = EmptyQuery
  /\ IdleFilter /\ IdleGen /\ IdleQuery /\ IdleCache /\ IdleColumn /\ IdlePanel /\ IdleSeq

NormalizeTagsRuleGroupCall ==
  /\ pc = "call"
  /\ normalizedQuery' = normalizeTagsRuleGroup(incomingQuery)
  /\ pc' = "normalized"
  /\ UNCHANGED <<incomingQuery, renormalizedQuery, filterVars, genVars, queryVars,
                 cacheVars, columnVars, panelVars, seqVars>>

NormalizeTagsRuleGroupAgain ==
  /\ pc = "normalized"
  /\ renormalizedQuery' = normalizeTagsRuleGroup(normalizedQuery)
  /\ pc' = "done"
  /\ UNCHANGED <<incomingQuery, normalizedQuery, filterVars, genVars, queryVars,
                 cacheVars, columnVars, panelVars, seqVars>>

NextNormalize == NormalizeTagsRuleGroupCall \/ NormalizeTagsRuleGroupAgain

SpecNormalize == InitNormalize /\ [][NextNormalize]_vars

(***************************************************************************)
(* Claims about the tag normalization (specification SpecNormalize).       *)
(***************************************************************************)
\* The array a tags rule's value v becomes: v itself when it is an array,
\* [] when it is empty, [v] otherwise.  Empty is '', undefined or null, or,
\* with falsyIsEmpty, any value that JavaScript reads as false.
ArrayOf(v, falsyIsEmpty) ==
  IF v.type = "array" THEN v
  ELSE IF v \in {Str(""), Undefined, Null} \/ (falsyIsEmpty /\ v \in {Num(0), Bool(FALSE)})
  THEN Arr(<<>>)
  ELSE Arr(<<v>>)

\* Rule o is rule r normalized.
NormalizedRule(o, r, falsyIsEmpty) ==
  LET fieldless == r.field \in {Undefined, Str("")}
      onTags == fieldless \/ r.field = Str("tags")
  IN /\ DOMAIN o = DOMAIN r
     /\ o.id = r.id /\ o.not = r.not
     /\ o.field = (IF fieldless THEN Str("tags") ELSE r.field)
     /\ ~onTags => o = r
     /\ onTags =>
          /\ o.operator = (IF r.operator \in {Str("in"), Str("notIn")}
                           THEN r.operator ELSE Str("in"))
          /\ o.value = ArrayOf(r.value, falsyIsEmpty)

\* Tree out is tree in normalized at every nesting level: the same groups
\* with the same combinator and negation, each rule normalized in place.
RECURSIVE NormalizedTree(_, _, _)
NormalizedTree(out, in, falsyIsEmpty) ==
  /\ DOMAIN out = DOMAIN in
  /\ out.id = in.id /\ out.combinator = in.combinator /\ out.not = in.not
  /\ Len(out.rules) = Len(in.rules)
  /\ \A i \in DOMAIN in.rules :
       IF IsGroup(in.rules[i])
       THEN IsGroup(out.rules[i]) /\ NormalizedTree(out.rules[i], in.rules[i], falsyIsEmpty)
       ELSE ~IsGroup(out.rules[i]) /\ NormalizedRule(out.rules[i], in.rules[i], falsyIsEmpty)

\* C23, as claimed: at every nesting level normalizeTagsRuleGroup gives a
\* rule without a field the field 'tags'; gives a rule on 'tags' the
\* operator 'in' unless its operator is 'in' or 'notIn', and an array as
\* value ([v] for a scalar v, [] for '', undefined or null); leaves other
\* rules, combinators, negations and the group structure as they are; and
\* applied to its own result it changes nothing.
C23_Normalization ==
  /\ pc # "call" => NormalizedTree(normalizedQuery, incomingQuery, FALSE)
  /\ pc = "done" => renormalizedQuery = normalizedQuery

\* C23, amended: the same, where the value of a rule on 'tags' becomes [v]
\* only for a scalar v that JavaScript reads as true, and [] for every
\* other scalar: '', undefined and null, and also 0 and false.
C23_NormalizationFalsyIsEmpty ==
  /\ pc # "call" => NormalizedTree(normalizedQuery, incomingQuery, TRUE)
  /\ pc = "done" => renormalizedQuery = normalizedQuery

\* C23 witness: the normalization ran twice on a tree with a nested group
\* holding a rule on 'tags' with operator '=' and the value 0, which became
\* a rule with operator 'in' and the value [].
C23_Witness ==
  /\ pc = "done"
  /\ \E i \in DOMAIN incomingQuery.rules :
       /\ IsGroup(incomingQuery.rules[i])
       /\ \E j \in DOMAIN incomingQuery.rules[i].rules :
            /\ ~IsGroup(incomingQuery.rules[i].rules[j])
            /\ incomingQuery.rules[i].rules[j].field = Str("tags")
            /\ incomingQuery.rules[i].rules[j].operator = Str("=")
            /\ incomingQuery.rules[i].rules[j].value = Num(0)
            /\ normalizedQuery.rules[i].rules[j].operator = Str("in")
            /\ normalizedQuery.rules[i].rules[j].value = Arr(<<>>)
            /\ renormalizedQuery.rules[i].rules[j].value = Arr(<<>>)

(***************************************************************************)
(* The specification of the sequencer: QueueColumn mounted with no         *)
(* playlist, then any sequence of its handlers and of its props changing.  *)
(***************************************************************************)
\* The playlists PlaylistColumn offers.
SequencerPlaylists ==
  {[id |-> 1, filters |-> <<[id |-> 1, filters |-> EmptyFilters]>>, manual_songs |-> <<>>],
   [id |-> 2, filters |-> <<[id |-> 1, filters |-> [EmptyFilters EXCEPT !.tag = SomeTag("t2")]]>>,
    manual_songs |-> <<QueueSong1>>],
   [id |-> 3, filters |-> <<>>, manual_songs |-> <<QueueSong3>>]}

\* The catalogs the ['songs'] query may return.
SequencerCatalogs == {c \in Catalogs : Len(c) = MaxCatalog}

Frame ==
  UNCHANGED <<pc, filterVars, playlist, generatedQueue, queryVars, normVars, cacheVars,
              columnVars, panelVars>>

InitSeq ==
  /\ pc = "call"
  /\ IdleFilter /\ IdleGen /\ IdleQuery /\ IdleNorm /\ IdleCache /\ IdleColumn /\ IdlePanel /\ IdleSeq

\* The ['songs'] query succeeds.
SongsLoaded ==
  /\ ~songsLoaded
  /\ \E c \in SequencerCatalogs :
       Commit([Render EXCEPT !.loaded = TRUE, !.all = c], "other")
  /\ UNCHANGED <<playlistOptions, isPlaying, isPlayerVisible, playerVars>>
  /\ Frame

\* Home.handlePlaylistChange(playlist)
HandlePlaylistChange ==
  /\ \E pl \in SequencerPlaylists \cup {NullPlaylist} :
       Commit([Render EXCEPT !.playlist = pl,
                             !.ref = IF pl = NullPlaylist THEN 0 ELSE pl.id], "other")
  /\ UNCHANGED <<playlistOptions, isPlaying, isPlayerVisible, playerVars>>
  /\ Frame

\* A click on the i-th item of the queue: onPlay(queueItem)
PlayItemAt(i) ==
  /\ playQueueItem(queueItems[i], "playQueueItem")
  /\ UNCHANGED playlistOptions
  /\ Frame

PlayQueueItem == \E i \in DOMAIN queueItems : PlayItemAt(i)

PlayNext ==
  /\ IF Len(queueItems) = 0 THEN Returns("playNext")
     ELSE LET choices == nextIndex(currentPosition, Len(queueItems), playlistOptions)
          IN IF choices = {} THEN Returns("playNext")
             ELSE \E n \in choices :
                    IF n \in 0..(Len(queueItems) - 1)
                    THEN playQueueItem(queueItems[n + 1], "playNext")
                    ELSE Returns("playNext")
  /\ UNCHANGED playlistOptions
  /\ Frame

PlayPrevious ==
  /\ IF Len(queueItems) = 0 THEN Returns("playPrevious")
     ELSE LET p == prevIndex(currentPosition, Len(queueItems), playlistOptions)
          IN IF p \in 0..(Len(queueItems) - 1)
             THEN playQueueItem(queueItems[p + 1], "playPrevious")
             ELSE Returns("playPrevious")
  /\ UNCHANGED playlistOptions
  /\ Frame

\* updatePlaylistOption(key, value), from the shuffle switch and the repeat
\* select.  (The autoplay switch sets playlistOptions.autoplay, which nothing
\* reads; it stays at its initial value here.)
UpdatePlaylistOption ==
  /\ \/ \E v \in BOOLEAN : playlistOptions' = [playlistOptions EXCEPT !.shuffle = v]
     \/ \E v \in {"none", "all", "one"} : playlistOptions' = [playlistOptions EXCEPT !.repeat = v]
  /\ Commit(Render, "other")
  /\ UNCHANGED <<isPlaying, isPlayerVisible, playerVars>>
  /\ Frame

\* handleDragEnd({active, over}): an item dropped on an item
HandleDragEnd ==
  /\ \E active, over \in DOMAIN queueItems :
       IF queueItems[active].id # queueItems[over].id
       THEN Commit([Render EXCEPT !.queue =
                      LET newItems == arrayMove(queueItems, active - 1, over - 1)
                      IN [i \in DOMAIN newItems |-> [newItems[i] EXCEPT !.position = i - 1]]],
                   "other")
       ELSE Returns("other")
  /\ UNCHANGED <<playlistOptions, isPlaying, isPlayerVisible, playerVars>>
  /\ Frame

\* togglePlayPause, from the play/pause button of QueueColumn
TogglePlayPause ==
  /\ Len(queueItems) # 0 /\ currentSong # NullSong
  /\ isPlaying' = ~isPlaying
  /\ Commit(Render, "other")
  /\ PlayerCommit([PlayerRender EXCEPT !.playing = ~isPlaying], TRUE)
  /\ UNCHANGED <<playlistOptions, isPlayerVisible, erroredSong>>
  /\ Frame

NextSeq ==
  \/ SongsLoaded
  \/ HandlePlaylistChange
  \/ PlayQueueItem
  \/ PlayNext
  \/ PlayPrevious
  \/ UpdatePlaylistOption
  \/ HandleDragEnd
  \/ TogglePlayPause

SpecSeq == InitSeq /\ [][NextSeq]_vars

(***************************************************************************)
(* Claims about the sequencer (specification SpecSeq).                     *)
(***************************************************************************)
\* The current position is an index of the queue, when the queue has items.
PositionInQueue ==
  Len(queueItems) > 0 => currentPosition \in 0..(Len(queueItems) - 1)

\* C9: on a non-empty queue at position p with repeat = 'one', playNext
\* leaves the position at p and selects the item at p again (its song is
\* the current song, playing), whatever shuffle is.
C9_RepeatOne ==
  [][(PlayNext /\ Len(queueItems) > 0 /\ PositionInQueue
        /\ playlistOptions.repeat = "one")
     => /\ currentPosition' = currentPosition
        /\ currentSong' = queueItems[currentPosition + 1].song
        /\ isPlaying']_vars

\* C9 witness: playNext has run with repeat = 'one' and shuffle on, on a
\* queue of three items at position 1.
C9_Witness ==
  /\ lastOp = "playNext"
  /\ playlistOptions.repeat = "one" /\ playlistOptions.shuffle
  /\ Len(queueItems) = 3
  /\ currentPosition = 1
  /\ currentSong = queueItems[2].song

\* C10: on a non-empty queue at its last position with repeat = 'none' and
\* shuffle off, playNext changes neither the position, nor the current song,
\* nor isPlaying.
C10_EndOfQueue ==
  [][(PlayNext /\ Len(queueItems) > 0
        /\ currentPosition = Len(queueItems) - 1
        /\ playlistOptions.repeat = "none" /\ ~playlistOptions.shuffle)
     => UNCHANGED <<currentPosition, currentSong, isPlaying, queueItems>>]_vars

\* C10 witness: playNext has run at the last of three items with repeat =
\* 'none' and shuffle off, and the player is still paused on that item.
C10_Witness ==
  /\ lastOp = "playNext"
  /\ playlistOptions.repeat = "none" /\ ~playlistOptions.shuffle
  /\ Len(queueItems) = 3
  /\ currentPosition = 2
  /\ currentSong = queueItems[3].song
  /\ ~isPlaying

\* C11: with shuffle off and repeat not 'one', playNext from a position
\* p < n-1 moves to p+1, and from the last position with repeat = 'all' to
\* position 0; the current song becomes the song at the new position and
\* isPlaying becomes true.
C11_AdvanceAndWrap ==
  [][(PlayNext /\ Len(queueItems) > 0 /\ PositionInQueue
        /\ ~playlistOptions.shuffle /\ playlistOptions.repeat # "one"
        /\ (currentPosition < Len(queueItems) - 1 \/ playlistOptions.repeat = "all"))
     => /\ currentPosition' =
             (IF currentPosition < Len(queueItems) - 1 THEN currentPosition + 1 ELSE 0)
        /\ currentSong' = queueItems[currentPosition' + 1].song
        /\ currentSong' = queueItems'[currentPosition' + 1].song
        /\ isPlaying']_vars

\* C11 witness: playNext has run with repeat = 'all' and shuffle off and
\* left a queue of three items at position 0, which sequential advance
\* reaches only by wrapping from position 2.
C11_Witness ==
  /\ lastOp = "playNext"
  /\ playlistOptions.repeat = "all" /\ ~playlistOptions.shuffle
  /\ Len(queueItems) = 3
  /\ currentPosition = 0
  /\ currentSong = queueItems[1].song
  /\ isPlaying

\* C12: playPrevious on a non-empty queue at position p moves to p-1 when
\* p > 0; from p = 0 to the last index when repeat = 'all' and to index 0
\* otherwise; for every value of shuffle, and with repeat = 'one' as with
\* repeat = 'none'.  The song at the new position is selected.
C12_Previous ==
  [][(PlayPrevious /\ Len(queueItems) > 0 /\ PositionInQueue)
     => /\ currentPosition' =
             (IF currentPosition > 0 THEN currentPosition - 1
              ELSE IF playlistOptions.repeat = "all" THEN Len(queueItems) - 1
              ELSE 0)
        /\ currentSong' = queueItems[currentPosition' + 1].song]_vars

\* C12 witness: playPrevious has run with shuffle on and repeat = 'one' and
\* left a queue of three items at position 1.
C12_Witness ==
  /\ lastOp = "playPrevious"
  /\ playlistOptions.shuffle /\ playlistOptions.repeat = "one"
  /\ Len(queueItems) = 3
  /\ currentPosition = 1
  /\ currentSong = queueItems[2].song

\* C13: with zero queue items, playNext and playPrevious change neither the
\* position, nor the current song, nor isPlaying, for every setting of
\* shuffle and repeat (a handler that raised would not be a step at all:
\* both handlers are enabled in every state).
C13_EmptyQueueNoOp ==
  [][((PlayNext \/ PlayPrevious) /\ Len(queueItems) = 0)
     => UNCHANGED <<currentPosition, currentSong, isPlaying, queueItems>>]_vars

\* C13 witness: playNext has run on an empty queue with shuffle on and
\* repeat = 'all', while a song selected earlier is still playing.
C13_Witness ==
  /\ lastOp = "playNext"
  /\ Len(queueItems) = 0
  /\ playlistOptions.shuffle /\ playlistOptions.repeat = "all"
  /\ currentSong # NullSong /\ isPlaying

\* C14: a click on the i-th item of the queue makes its song the current
\* song, makes the position the index of that item, and sets isPlaying,
\* from every state.
C14_PlayItem ==
  [][\A i \in DOMAIN queueItems :
        PlayItemAt(i)
        => /\ currentSong' = queueItems[i].song
           /\ currentPosition' = i - 1
           /\ isPlaying']_vars

\* C14 witness: an item was clicked while the player was showing another
\* position; the queue of three items is at position 2, playing.
C14_Witness ==
  /\ lastOp = "playQueueItem"
  /\ Len(queueItems) = 3
  /\ currentPosition = 2
  /\ currentSong = queueItems[3].song
  /\ isPlaying

\* C15: with shuffle on and repeat not 'one', playNext on a non-empty queue
\* of length n selects a position in [0, n) from every current position,
\* the last position with repeat = 'none' included: the song at the selected
\* position is the current song, playing.
C15_ShuffleFromEveryPosition ==
  [][(PlayNext /\ Len(queueItems) > 0 /\ PositionInQueue
        /\ playlistOptions.shuffle /\ playlistOptions.repeat # "one")
     => /\ currentPosition' \in 0..(Len(queueItems) - 1)
        /\ currentSong' = queueItems[currentPosition' + 1].song
        /\ isPlaying']_vars

\* C26: with the position at 0 and repeat not 'all', playPrevious on a
\* non-empty queue changes nothing: not the position, not the current song,
\* not isPlaying (a paused player stays paused), not the player's
\* visibility, not the queue.
C26_PreviousAtStartNoOp ==
  [][(PlayPrevious /\ Len(queueItems) > 0 /\ currentPosition = 0
        /\ playlistOptions.repeat # "all")
     => UNCHANGED <<currentPosition, currentSong, isPlaying, isPlayerVisible,
                    queueItems>>]_vars

(***************************************************************************)
(* The sequencer with the song table beside it: the play button of a row   *)
(* of the table calls playSong with a song of the library.                 *)
(***************************************************************************)
\* SongTable: playSong(row.original)
PlayTableSong ==
  /\ \E song \in Range(allSongs) :
       /\ Commit([Render EXCEPT !.song = song], "other")
       /\ PlayerCommit([PlayerRender EXCEPT !.song = song, !.playing = TRUE],
                       playSongRenders(song))
       /\ erroredSong' = IF song = currentSong THEN erroredSong ELSE NullSong
  /\ isPlaying' = TRUE
  /\ isPlayerVisible' = TRUE
  /\ UNCHANGED playlistOptions
  /\ Frame

NextPosition ==
  \/ SongsLoaded
  \/ HandlePlaylistChange
  \/ PlayQueueItem
  \/ PlayNext
  \/ PlayPrevious
  \/ UpdatePlaylistOption
  \/ HandleDragEnd
  \/ PlayTableSong

SpecPosition == InitSeq /\ [][NextPosition]_vars

\* The current song is the song of an item of the queue.
CurrentSongInQueue ==
  /\ currentSong # NullSong
  /\ \E i \in DOMAIN queueItems : queueItems[i].song.id = currentSong.id

\* C28: in every state, if the current song is in the queue then the item
\* at currentPosition is the current song, and the position field of every
\* item is its index in the queue.
C28_PositionTracksCurrentSong ==
  /\ CurrentSongInQueue =>
       /\ currentPosition \in 0..(Len(queueItems) - 1)
       /\ queueItems[currentPosition + 1].song.id = currentSong.id
  /\ \A i \in DOMAIN queueItems : queueItems[i].position = i - 1

(***************************************************************************)
(* The specification of playlist editing: QueueColumn under Home, with the *)
(* handlers of PlaylistColumn, LibraryColumn and SongTable that edit the   *)
(* selected playlist.  A playlist loaded from the list is the saved one.   *)
(***************************************************************************)
\* An identity no saved array has, other than ref.
freshRef(ref) == IF ref = -1 THEN -2 ELSE -1

\* generateFilterId(): an id no filter of the playlist has
generateFilterId(fs) ==
  CHOOSE n \in 1..(Len(fs) + 1) : \A i \in DOMAIN fs : fs[i].id # n

\* array.filter(keep), for arrays of at most three elements
RECURSIVE arrayFilter(_, _)
arrayFilter(arr, kept) ==
  IF arr = <<>> THEN <<>>
  ELSE (IF Head(arr).id \in kept THEN <<Head(arr)>> ELSE <<>>) \o arrayFilter(Tail(arr), kept)

\* The filters the library panel saves (hasActiveFilters).
EditedFilters == {f \in SavedFilters : f.genre.some \/ f.tag.some}

\* PlaylistColumn.removeFilter(filterId)
RemoveFilter ==
  /\ currentPlaylist # NullPlaylist
  /\ \E i \in DOMAIN currentPlaylist.filters :
       Commit([Render EXCEPT
                 !.playlist.filters =
                    arrayFilter(@, {f.id : f \in Range(@)} \ {currentPlaylist.filters[i].id}),
                 !.ref = freshRef(@)], "other")
  /\ UNCHANGED <<playlistOptions, isPlaying, isPlayerVisible, playerVars>>
  /\ Frame

\* PlaylistColumn.removeSong(songId)
removeSong(songId) ==
  /\ currentPlaylist # NullPlaylist
  /\ Commit([Render EXCEPT
               !.playlist.manual_songs = arrayFilter(@, {m.id : m \in Range(@)} \ {songId})],
            "removeSong")
  /\ UNCHANGED <<playlistOptions, isPlaying, isPlayerVisible, playerVars>>
  /\ Frame

\* The remove button of a listed manual song
RemoveSong ==
  /\ currentPlaylist # NullPlaylist
  /\ \E i \in DOMAIN currentPlaylist.manual_songs :
       removeSong(currentPlaylist.manual_songs[i].id)

\* SongTable.addSongToPlaylist(song), then Home.handleSongAddedToPlaylist():
\* the song is pushed onto the array currentPlaylist.manual_songs and the
\* playlist object is copied, its filters array the same array.
addSongToPlaylistUnchecked(song) ==
  /\ IF currentPlaylist = NullPlaylist THEN Returns("addSongToPlaylist")
     ELSE /\ Len(currentPlaylist.manual_songs) < MaxManual
          /\ Commit([Render EXCEPT !.playlist.manual_songs = Append(@, song)],
                    "addSongToPlaylist")
  /\ UNCHANGED <<playlistOptions, isPlaying, isPlayerVisible, playerVars>>
  /\ Frame

addSongToPlaylist(song) ==
  /\ IF currentPlaylist = NullPlaylist THEN Returns("addSongToPlaylist")
     ELSE IF \E i \in DOMAIN currentPlaylist.manual_songs :
                currentPlaylist.manual_songs[i].id = song.id
     THEN Returns("addSongToPlaylist")
     ELSE /\ Len(currentPlaylist.manual_songs) < MaxManual
          /\ Commit([Render EXCEPT !.playlist.manual_songs = Append(@, song)],
                    "addSongToPlaylist")
  /\ UNCHANGED <<playlistOptions, isPlaying, isPlayerVisible, playerVars>>
  /\ Frame

\* The add button of a row of the song table
AddSongToPlaylist == \E song \in QueueSongs : addSongToPlaylist(song)

\* LibraryColumn.saveFilterToPlaylist(), then Home.handleFilterSaved(newFilter):
\* the filter replaces the one being edited, or is pushed, in the array
\* currentPlaylist.filters itself; Home sets editingFilter only.
SaveFilterToPlaylist ==
  /\ IF currentPlaylist = NullPlaylist THEN Returns("other")
     ELSE \E f \in EditedFilters :
            \/ \E i \in DOMAIN currentPlaylist.filters :
                 Commit([Render EXCEPT !.playlist.filters[i].filters = f], "other")
            \/ /\ Len(currentPlaylist.filters) < MaxFilters
               /\ Commit([Render EXCEPT
                            !.playlist.filters =
                               Append(@, [id |-> generateFilterId(@), filters |-> f])],
                         "other")
  /\ UNCHANGED <<playlistOptions, isPlaying, isPlayerVisible, playerVars>>
  /\ Frame

NextPlaylistEdit ==
  \/ SongsLoaded
  \/ HandlePlaylistChange
  \/ RemoveFilter
  \/ RemoveSong
  \/ AddSongToPlaylist
  \/ SaveFilterToPlaylist

SpecPlaylistEdit == InitSeq /\ [][NextPlaylistEdit]_vars

\* The songs of a queue.
SongsOf(items) == {items[i].song : i \in DOMAIN items}

\* C16: with no active playlist the queue is empty, and once the catalog is
\* loaded the queue holds exactly the songs of generateQueue(active
\* playlist, catalog), after every edit of the active playlist.
C16_QueueIsRegenerated ==
  /\ currentPlaylist = NullPlaylist => queueItems = <<>>
  /\ (currentPlaylist # NullPlaylist /\ songsLoaded)
       => SongsOf(queueItems) = SongsOf(generateQueue(currentPlaylist, allSongs))

(***************************************************************************)
(* The manual songs of the selected playlist: a playlist is loaded with    *)
(* any manual songs without a repeated id, songs are added from the table  *)
(* and removed from the list.  The rows of the table come from another     *)
(* fetch than the songs of the playlist: a row may be a newer object with  *)
(* the id of a manual song.                                                *)
(***************************************************************************)
\* QueueSong1 as a later fetch returns it, its tags changed
RefetchedSong1 == [QueueSong1 EXCEPT !.tags = {"t2"}]

TableSongs == QueueSongs \cup {RefetchedSong1}

ManualPlaylists ==
  {[pl EXCEPT !.manual_songs = ms] :
     pl \in SequencerPlaylists,
     ms \in {m \in SeqsUpTo(TableSongs, MaxManual) : DistinctIds(m)}}

\* PlaylistColumn.loadPlaylist(playlist)
LoadPlaylist ==
  /\ \E pl \in ManualPlaylists :
       Commit([Render EXCEPT !.playlist = pl, !.ref = pl.id], "other")
  /\ UNCHANGED <<playlistOptions, isPlaying, isPlayerVisible, playerVars>>
  /\ Frame

\* The add button of a row of the song table, rows of a later fetch included
AddTableSongToPlaylist == \E song \in TableSongs : addSongToPlaylist(song)

NextManualSongs ==
  \/ SongsLoaded
  \/ LoadPlaylist
  \/ AddTableSongToPlaylist
  \/ RemoveSong

SpecManualSongs == InitSeq /\ [][NextManualSongs]_vars

\* The ids of the songs of an array, in order.
IdsOf(ss) == [i \in DOMAIN ss |-> ss[i].id]

\* C24: the manual songs of the selected playlist never hold two songs
\* with one id; adding a song whose id a manual song has leaves the
\* playlist as it is; removing a song leaves, in order, exactly the manual
\* songs with another id.
C24_ManualSongsAreASet ==
  /\ [](currentPlaylist # NullPlaylist =>
         \A i, j \in DOMAIN currentPlaylist.manual_songs :
           currentPlaylist.manual_songs[i].id = currentPlaylist.manual_songs[j].id => i = j)
  /\ [][\A song \in TableSongs :
          (/\ addSongToPlaylist(song)
           /\ currentPlaylist # NullPlaylist
           /\ song.id \in Range(IdsOf(currentPlaylist.manual_songs)))
          => currentPlaylist' = currentPlaylist]_vars
  /\ [][\A song \in TableSongs :
          removeSong(song.id)
          => /\ song.id \notin Range(IdsOf(currentPlaylist'.manual_songs))
             /\ currentPlaylist'.manual_songs =
                  SelectSeq(currentPlaylist.manual_songs, LAMBDA m : m.id # song.id)
             /\ currentPlaylist'.id = currentPlaylist.id
             /\ currentPlaylist'.filters = currentPlaylist.filters]_vars

\* C24 witness: addSongToPlaylist ran last, on a playlist that now holds two
\* manual songs of different ids.
C24_Witness ==
  /\ lastOp = "addSongToPlaylist"
  /\ currentPlaylist # NullPlaylist
  /\ Len(currentPlaylist.manual_songs) = 2
  /\ currentPlaylist.manual_songs[1] = QueueSong1
  /\ currentPlaylist.manual_songs[2] = QueueSong2

(***************************************************************************)
(* PlaylistColumn: the list of saved playlists, with its load, rename and  *)
(* delete controls.  A mutation's onSuccess reads the state of the render  *)
(* in which the response arrives.  The delete button is loading, and takes *)
(* no click, while a delete is in flight; so is the rename's Save.         *)
(***************************************************************************)
ColumnFrame ==
  UNCHANGED <<pc, filterVars, playlist, generatedQueue, queryVars, normVars, cacheVars,
              panelVars>>

SeqUnchanged ==
  UNCHANGED <<currentPlaylist, filtersRef, songsLoaded, allSongs, queueItems,
              currentPosition, playlistOptions, currentSong, isPlaying, isPlayerVisible,
              playerVars, lastOp>>

\* The Load button of a listed playlist: loadPlaylist(playlist)
LoadSavedPlaylist ==
  /\ \E pl \in SequencerPlaylists :
       /\ pl.id \in savedPlaylistIds
       /\ Commit([Render EXCEPT !.playlist = pl, !.ref = pl.id], "other")
  /\ UNCHANGED <<playlistOptions, isPlaying, isPlayerVisible, playerVars>>
  /\ UNCHANGED columnVars
  /\ ColumnFrame

\* startRenaming(playlist)
StartRenaming ==
  /\ \E id \in savedPlaylistIds :
       /\ editingPlaylistId # id
       /\ editingPlaylistId' = id
  /\ UNCHANGED <<savedPlaylistIds, renamePending, deletePending>>
  /\ SeqUnchanged /\ ColumnFrame

\* cancelRenaming()
CancelRenaming ==
  /\ editingPlaylistId # 0
  /\ editingPlaylistId' = 0
  /\ UNCHANGED <<savedPlaylistIds, renamePending, deletePending>>
  /\ SeqUnchanged /\ ColumnFrame

\* confirmRename(playlistId) with a name: renamePlaylistMutation.mutate
ConfirmRename ==
  /\ editingPlaylistId # 0 /\ renamePending = 0
  /\ renamePending' = editingPlaylistId
  /\ UNCHANGED <<savedPlaylistIds, editingPlaylistId, deletePending>>
  /\ SeqUnchanged /\ ColumnFrame

\* renamePlaylistMutation.onSuccess(updatedPlaylist): the playlist of the
\* response is the saved one, a new object
RenamePlaylistSuccess ==
  /\ renamePending # 0
  /\ renamePending \in savedPlaylistIds
  /\ IF currentPlaylist # NullPlaylist /\ currentPlaylist.id = renamePending
     THEN \E pl \in SequencerPlaylists :
            /\ pl.id = renamePending
            /\ Commit([Render EXCEPT !.playlist = pl, !.ref = freshRef(@)], "other")
     ELSE Returns("other")
  /\ editingPlaylistId' = 0
  /\ renamePending' = 0
  /\ UNCHANGED <<savedPlaylistIds, deletePending>>
  /\ UNCHANGED <<playlistOptions, isPlaying, isPlayerVisible, playerVars>>
  /\ ColumnFrame

\* renamePlaylistMutation.onError
RenamePlaylistError ==
  /\ renamePending # 0
  /\ editingPlaylistId' = 0
  /\ renamePending' = 0
  /\ UNCHANGED <<savedPlaylistIds, deletePending>>
  /\ SeqUnchanged /\ ColumnFrame

\* handleDeletePlaylist(playlistId): deletePlaylistMutation.mutate(playlistId)
HandleDeletePlaylist ==
  /\ deletePending = 0
  /\ \E id \in savedPlaylistIds : deletePending' = id
  /\ UNCHANGED <<savedPlaylistIds, editingPlaylistId, renamePending>>
  /\ SeqUnchanged /\ ColumnFrame

\* deletePlaylistMutation.onSuccess, the refetch of ['playlists'] included
DeletePlaylistSuccess ==
  /\ deletePending # 0
  /\ IF currentPlaylist # NullPlaylist /\ currentPlaylist.id = editingPlaylistId
     THEN Commit([Render EXCEPT !.playlist = NullPlaylist, !.ref = 0], "other")
     ELSE Returns("other")
  /\ savedPlaylistIds' = savedPlaylistIds \ {deletePending}
  /\ deletePending' = 0
  /\ UNCHANGED <<editingPlaylistId, renamePending>>
  /\ UNCHANGED <<playlistOptions, isPlaying, isPlayerVisible, playerVars>>
  /\ ColumnFrame

\* deletePlaylistMutation.onError
DeletePlaylistError ==
  /\ deletePending # 0
  /\ deletePending' = 0
  /\ UNCHANGED <<savedPlaylistIds, editingPlaylistId, renamePending>>
  /\ SeqUnchanged /\ ColumnFrame

NextColumn ==
  \/ SongsLoaded
  \/ LoadSavedPlaylist
  \/ StartRenaming
  \/ CancelRenaming
  \/ ConfirmRename
  \/ RenamePlaylistSuccess
  \/ RenamePlaylistError
  \/ HandleDeletePlaylist
  \/ DeletePlaylistSuccess
  \/ DeletePlaylistError

SpecColumn == InitSeq /\ [][NextColumn]_vars

\* C27: when the delete of playlist d succeeds and d is the selected
\* playlist, the selection becomes null and the queue empty, whether or not
\* a playlist is being renamed; when d is not the selected playlist the
\* selection stays as it is.
C27_DeleteClearsSelection ==
  [][DeletePlaylistSuccess =>
       IF currentPlaylist # NullPlaylist /\ currentPlaylist.id = deletePending
       THEN currentPlaylist' = NullPlaylist /\ queueItems' = <<>>
       ELSE currentPlaylist' = currentPlaylist]_vars

(***************************************************************************)
(* The specification of playback: the sequencer's selection of songs, and  *)
(* MusicPlayer with the events of its audio element.                       *)
(***************************************************************************)
\* The audio element's 'error' event: handleError
AudioError ==
  /\ currentSong # NullSong /\ media = "loading"
  /\ isPlaying' = FALSE
  /\ PlayerCommit([PlayerRender EXCEPT !.error = TRUE, !.playing = FALSE, !.media = "failed"],
                  isPlaying)
  /\ erroredSong' = currentSong
  /\ Commit(Render, "other")
  /\ UNCHANGED <<playlistOptions, isPlayerVisible>>
  /\ Frame

\* The promise of audio.play() is rejected: the catch of the sync effect.
\* The element is paused or not afterwards, by the reason of the rejection.
PlayRejected ==
  /\ playPending
  /\ \E p \in {TRUE, audioPaused} :
       PlayerCommit([PlayerRender EXCEPT !.error = TRUE, !.pending = FALSE, !.paused = p], FALSE)
  /\ erroredSong' = currentSong
  /\ Commit(Render, "other")
  /\ UNCHANGED <<playlistOptions, isPlaying, isPlayerVisible>>
  /\ Frame

\* The promise of audio.play() is fulfilled.
PlayFulfilled ==
  /\ playPending /\ media = "ok"
  /\ PlayerCommit([PlayerRender EXCEPT !.pending = FALSE], FALSE)
  /\ Commit(Render, "other")
  /\ UNCHANGED <<playlistOptions, isPlaying, isPlayerVisible, erroredSong>>
  /\ Frame

\* The audio element's 'canplay' event: handleCanPlay
CanPlay ==
  /\ currentSong # NullSong /\ media = "loading"
  /\ PlayerCommit([PlayerRender EXCEPT !.error = FALSE, !.media = "ok"], FALSE)
  /\ Commit(Render, "other")
  /\ UNCHANGED <<playlistOptions, isPlaying, isPlayerVisible, erroredSong>>
  /\ Frame

NextPlayer ==
  \/ SongsLoaded
  \/ HandlePlaylistChange
  \/ PlayQueueItem
  \/ TogglePlayPause
  \/ AudioError
  \/ PlayRejected
  \/ PlayFulfilled
  \/ CanPlay

SpecPlayer == InitSeq /\ [][NextPlayer]_vars

\* C17: from a playback error on the current song ('error' event or
\* rejection of play()) until another song is selected, the player is in
\* the error state and isPlaying is false.
C17_ErrorBlocksSong ==
  erroredSong # NullSong => (hasError /\ ~isPlaying)

(***************************************************************************)
(* The specification of the music player context: MusicProvider with every *)
(* caller of playSong, togglePlayPause and closePlayer (the queue, the     *)
(* song table, the player's buttons) and the events of the audio element.  *)
(***************************************************************************)
closePlayerPlayingKept(op) ==
  /\ Commit([Render EXCEPT !.song = NullSong], op)
  /\ isPlaying' = isPlaying
  /\ isPlayerVisible' = FALSE
  /\ PlayerCommit([PlayerRender EXCEPT !.song = NullSong], TRUE)
  /\ erroredSong' = NullSong

\* closePlayer of MusicProvider, and the effects of MusicPlayer on the
\* render with no song
closePlayer(op) ==
  /\ Commit([Render EXCEPT !.song = NullSong], op)
  /\ isPlaying' = FALSE
  /\ isPlayerVisible' = FALSE
  /\ PlayerCommit([PlayerRender EXCEPT !.song = NullSong, !.playing = FALSE], TRUE)
  /\ erroredSong' = NullSong

\* The close button of MusicPlayer, disabled with no song and no error
ClosePlayer ==
  /\ currentSong # NullSong \/ hasError
  /\ closePlayer("closePlayer")
  /\ UNCHANGED playlistOptions
  /\ Frame

\* The play/pause button of MusicPlayer: rendered with no error, disabled
\* with no song
PlayerTogglePlayPause ==
  /\ ~hasError /\ currentSong # NullSong
  /\ isPlaying' = ~isPlaying
  /\ Commit(Render, "togglePlayPause")
  /\ PlayerCommit([PlayerRender EXCEPT !.playing = ~isPlaying], TRUE)
  /\ UNCHANGED <<playlistOptions, isPlayerVisible, erroredSong>>
  /\ Frame

\* The audio element's 'ended' event: handleEnded, a listener only while a
\* song is set.  The element is paused at the end of playback or is not, by
\* the browser.
AudioEnded ==
  /\ currentSong # NullSong /\ media = "ok" /\ ~audioPaused
  /\ isPlaying' = FALSE
  /\ \E p \in {TRUE, audioPaused} :
       PlayerCommit([PlayerRender EXCEPT !.playing = FALSE, !.paused = p], isPlaying)
  /\ Commit(Render, "handleEnded")
  /\ UNCHANGED <<playlistOptions, isPlayerVisible, erroredSong>>
  /\ Frame

NextContext ==
  \/ SongsLoaded
  \/ HandlePlaylistChange
  \/ PlayQueueItem
  \/ PlayTableSong
  \/ TogglePlayPause
  \/ PlayerTogglePlayPause
  \/ ClosePlayer
  \/ AudioEnded
  \/ AudioError
  \/ PlayRejected
  \/ PlayFulfilled
  \/ CanPlay

SpecContext == InitSeq /\ [][NextContext]_vars

\* C29: in every state of the music player context, isPlaying = true
\* implies that a current song is set, whatever sequence of playSong,
\* togglePlayPause, closePlayer and 'ended' and 'error' events led to it.
C29_PlayingImpliesSong ==
  isPlaying => currentSong # NullSong

\* Playback resumed by the player's button (after a pause, the end of the
\* song or a close and a new selection): playing, with a song.
C29_Witness ==
  /\ lastOp = "togglePlayPause"
  /\ isPlaying /\ currentSong # NullSong

(***************************************************************************)
(* The specification of the filter panel: AdvancedFilterPanel under        *)
(* LibraryColumn.  The panel's filters prop is LibraryColumn's query, a    *)
(* new object whenever it is not null.                                     *)
(***************************************************************************)
\* The rules and the group the query builder adds.
PanelItems ==
  {BaseRule, [BaseRule EXCEPT !.value = Str("")],
   [id |-> "ui", combinator |-> "and", not |-> Bool(FALSE), rules |-> <<>>]}

\* The trees onQueryChange reports after one edit of tree q.
Edits(q) ==
  {[q EXCEPT !.rules = Append(@, item)] : item \in IF NodeCount(q) < MaxNodes THEN PanelItems ELSE {}}
  \cup {[q EXCEPT !.rules = SubSeq(@, 1, Len(@) - 1)] : x \in IF Len(q.rules) > 0 THEN {0} ELSE {}}
  \cup {[q EXCEPT !.combinator = c] : c \in {"and", "or"} \ {q.combinator}}
  \cup {[q EXCEPT !.not = Bool(~Truthy(q.not))]}

\* The effect of the panel on [filters], run when the prop changed to f.
filtersEffect(f, q, flag) ==
  IF ~flag
  THEN [query |-> IF f # NullJSON THEN convertQueryJSONToRuleGroup(f) ELSE DefaultPanelQuery,
        flag |-> flag]
  ELSE [query |-> q, flag |-> FALSE]

\* onFiltersChange(f) = LibraryColumn.handleQueryChange(f), and the panel's
\* render with the new prop; flag is isQueryBuilderUpdate.current at the call.
onFiltersChange(f, flag) ==
  LET changed == ~(f = NullJSON /\ libraryQuery = NullJSON)
      after == IF changed THEN filtersEffect(f, panelQuery, flag)
               ELSE [query |-> panelQuery, flag |-> flag]
  IN /\ libraryQuery' = f
     /\ panelQuery' = after.query
     /\ isQueryBuilderUpdate' = after.flag
     /\ notified' = TRUE

handleQueryChangeAutoApply(newQuery) ==
  /\ panelQuery' = newQuery
  /\ libraryQuery' = convertQueryToJSON(newQuery)
  /\ isQueryBuilderUpdate' = FALSE
  /\ notified' = TRUE

\* handleQueryChange(newQuery): setQuery(newQuery) and nothing else
handleQueryChange(newQuery) ==
  /\ panelQuery' = newQuery
  /\ notified' = FALSE
  /\ UNCHANGED <<libraryQuery, isQueryBuilderUpdate>>

PanelFrame ==
  UNCHANGED <<pc, filterVars, genVars, queryVars, normVars, cacheVars, columnVars, seqVars>>

\* An edit in the query builder: onQueryChange(newQuery)
HandleQueryChange ==
  /\ \E newQuery \in Edits(panelQuery) : handleQueryChange(newQuery)
  /\ UNCHANGED editingFilter
  /\ PanelFrame

\* The button "Apply Filters" (activeTab is always 'advanced')
ApplyFilters ==
  /\ onFiltersChange(convertQueryToJSON(panelQuery), TRUE)
  /\ UNCHANGED editingFilter
  /\ PanelFrame

\* The button "Clear All" of the panel
ClearFilters ==
  /\ onFiltersChange(NullJSON, isQueryBuilderUpdate)
  /\ UNCHANGED editingFilter
  /\ PanelFrame

NextPanel ==
  \/ HandleQueryChange
  \/ ApplyFilters
  \/ ClearFilters

InitPanel ==
  /\ pc = "call"
  /\ IdleFilter /\ IdleGen /\ IdleQuery /\ IdleNorm /\ IdleCache /\ IdleColumn /\ IdlePanel /\ IdleSeq

SpecPanel == InitPanel /\ [][NextPanel]_vars

IsJSON(f) == "combinator" \in DOMAIN f
IsSql(f) == "sql" \in DOMAIN f

\* formatQuery(query, 'sql') of react-querybuilder: a string written from
\* the combinators, the negations and each rule's field, operator and
\* value; the identifiers of the tree are not in it.
RECURSIVE formatQuery(_)
formatQuery(item) ==
  IF IsGroup(item)
  THEN [combinator |-> item.combinator, not |-> Truthy(item.not),
        rules |-> [i \in DOMAIN item.rules |-> formatQuery(item.rules[i])]]
  ELSE [field |-> item.field, operator |-> item.operator, value |-> item.value]

\* hasValidRules of applyFilters
hasValidRules(q) ==
  \E i \in DOMAIN q.rules :
     IF IsGroup(q.rules[i]) THEN Len(q.rules[i].rules) > 0
     ELSE /\ Truthy(q.rules[i].field)
          /\ q.rules[i].value \notin {Undefined, Str(""), Null}

\* hasActiveQuery of LibraryColumn
hasActiveQuery(f) ==
  /\ f # NullJSON
  /\ IsJSON(f) => (Len(f.rules) > 0 \/ Len(f.groups) > 0)

\* The effect of the panel on [filters], run when the prop changed to f:
\* a QueryJSON is converted and normalized, a string or null gives the
\* empty query; with the flag set the query is kept and the flag reset.
filtersPropEffect(f, q, flag) ==
  IF ~flag
  THEN [query |->
          IF IsJSON(f)
          THEN normalizeTagsRuleGroup(
                 [id |-> "ui", combinator |-> f.combinator, not |-> f.negated,
                  rules |->
                    [i \in DOMAIN f.rules |->
                       [id |-> generateRuleId, field |-> f.rules[i].field,
                        operator |-> f.rules[i].operator, value |-> f.rules[i].value,
                        not |-> f.rules[i].not]]
                    \o [i \in DOMAIN f.groups |-> convertQueryJSONToRuleGroup(f.groups[i])]])
          ELSE DefaultPanelQuery,
        flag |-> flag]
  ELSE [query |-> q, flag |-> FALSE]

\* setQuery(f) of LibraryColumn and the render of the panel that follows:
\* the effect runs when the prop is another value; flag is
\* isQueryBuilderUpdate.current at the call.
setLibraryQuery(f, flag) ==
  LET after == IF f # libraryQuery THEN filtersPropEffect(f, panelQuery, flag)
               ELSE [query |-> panelQuery, flag |-> flag]
  IN /\ libraryQuery' = f
     /\ panelQuery' = after.query
     /\ isQueryBuilderUpdate' = after.flag

\* The filters saved in the playlist: a QueryJSON and an SQL condition
SavedPanelFilters ==
  {[id |-> 1,
    filters |-> [combinator |-> "or", negated |-> Bool(FALSE),
                 rules |-> <<[field |-> Str("tags"), operator |-> Str("="),
                              value |-> Str("t1"), not |-> Bool(FALSE)]>>,
                 groups |-> <<>>]],
   [id |-> 2,
    filters |-> [sql |-> formatQuery([DefaultPanelQuery EXCEPT !.rules = <<BaseRule>>])]]}

\* An edit in the query builder: handleQueryChange(incomingQuery)
BuilderQueryChange ==
  /\ \E incoming \in Edits(panelQuery) : panelQuery' = normalizeTagsRuleGroup(incoming)
  /\ notified' = FALSE
  /\ UNCHANGED <<libraryQuery, isQueryBuilderUpdate, editingFilter>>
  /\ PanelFrame

\* The button "Apply Filters": applyFilters (activeTab is always 'advanced')
BuilderApplyFilters ==
  /\ setLibraryQuery(IF hasValidRules(panelQuery) THEN [sql |-> formatQuery(panelQuery)]
                     ELSE NullJSON,
                     TRUE)
  /\ notified' = TRUE
  /\ UNCHANGED editingFilter
  /\ PanelFrame

\* The button "Clear All" of the panel: clearFilters
BuilderClearFilters ==
  /\ setLibraryQuery(NullJSON, isQueryBuilderUpdate)
  /\ notified' = TRUE
  /\ UNCHANGED editingFilter
  /\ PanelFrame

\* The button "Clear All" of LibraryColumn: handleClearQuery
HandleClearQuery ==
  /\ hasActiveQuery(libraryQuery)
  /\ setLibraryQuery(NullJSON, isQueryBuilderUpdate)
  /\ notified' = FALSE
  /\ UNCHANGED editingFilter
  /\ PanelFrame

\* onEditFilter(filter) of PlaylistColumn: Home's editingFilter changes and
\* LibraryColumn's effect loads its filters.
EditFilter ==
  /\ \E filter \in SavedPanelFilters \ {editingFilter} :
       /\ editingFilter' = filter
       /\ setLibraryQuery(filter.filters, isQueryBuilderUpdate)
  /\ notified' = FALSE
  /\ PanelFrame

\* handleFilterSaved(null), from handleQueryBuilderCancel: editingFilter
\* becomes null and LibraryColumn's effect sets its query to null.
CancelEditing ==
  /\ editingFilter # NullFilter
  /\ editingFilter' = NullFilter
  /\ setLibraryQuery(NullJSON, isQueryBuilderUpdate)
  /\ notified' = FALSE
  /\ PanelFrame

NextFiltersProp ==
  \/ BuilderQueryChange
  \/ BuilderApplyFilters
  \/ BuilderClearFilters
  \/ HandleClearQuery
  \/ EditFilter
  \/ CancelEditing

SpecFiltersProp == InitPanel /\ [][NextFiltersProp]_vars

\* The builder's query for filters f: the tree of a QueryJSON, the empty
\* query for null (and for an SQL condition, which has no tree).
BuilderQueryFor(f) == filtersPropEffect(f, DefaultPanelQuery, FALSE).query

\* A step that sets LibraryColumn's query and is not the panel's Apply.
ExternalSet == BuilderClearFilters \/ HandleClearQuery \/ EditFilter \/ CancelEditing

\* C30: the isQueryBuilderUpdate flag suppresses exactly the change of the
\* filters prop caused by the panel's own Apply: Apply leaves the builder's
\* query as it is, and every change of the prop that does not come from
\* Apply (a saved filter loaded for editing, Clear All) resets the builder's
\* query to the new filters, also after an Apply that sent a value equal to
\* the filters in force.
C30_FlagSuppressesOnlyApply ==
  /\ [][BuilderApplyFilters => panelQuery' = panelQuery]_vars
  /\ [][(ExternalSet /\ libraryQuery' # libraryQuery)
          => panelQuery' = BuilderQueryFor(libraryQuery')]_vars

(***************************************************************************)
(* The specification of the tag mutations: up to MaxMutations calls of     *)
(* addTagToSong.mutate and removeTagFromSong.mutate, whose responses       *)
(* arrive in any order.  The tag of an add response is the server's: it    *)
(* has the name asked for and an id of the server's choosing.              *)
(***************************************************************************)
\* The song lists in the cache when the first mutation is issued: the full
\* list, and a filtered list without data, or with song 1 as fetched at the
\* same or at another time.
InitialCaches ==
  UNION {
    {[list |-> [hasData |-> TRUE,
                data |-> <<CachedSong(1, ts), CachedSong(2, <<Tag(2, "t2")>>)>>],
      listFiltered |-> f] :
       f \in {[hasData |-> FALSE, data |-> <<>>],
              [hasData |-> TRUE, data |-> <<CachedSong(1, ts)>>],
              [hasData |-> TRUE, data |-> <<CachedSong(1, <<Tag(1, "t1")>>)>>]}}
    : ts \in {<<>>, <<Tag(1, "t1")>>, <<Tag(2, "t2"), Tag(1, "t1")>>}}

CacheFrame ==
  UNCHANGED <<pc, filterVars, genVars, queryVars, normVars, columnVars, panelVars, seqVars>>

InitTagCache ==
  /\ pc = "call"
  /\ songsCache \in InitialCaches
  /\ pendingMutations = {}
  /\ issuedMutations = <<>>
  /\ arrivedResponses = <<>>
  /\ IdleFilter /\ IdleGen /\ IdleQuery /\ IdleNorm /\ IdleColumn /\ IdlePanel /\ IdleSeq

\* A mutation: n is its place in the order of issue; tagId is 0 in an add
\* until the response tells it, tagName is "" in a remove.
Mutation(kind, songId, tagName, tagId) ==
  [n |-> Len(issuedMutations) + 1, kind |-> kind, songId |-> songId,
   tagName |-> tagName, tagId |-> tagId]

Issue(m) ==
  /\ Len(issuedMutations) < MaxMutations
  /\ pendingMutations' = pendingMutations \cup {m}
  /\ issuedMutations' = Append(issuedMutations, m)
  /\ UNCHANGED <<songsCache, arrivedResponses>>
  /\ CacheFrame

\* addTagToSong.mutate({ songId, tagName })
MutateAddTagToSong ==
  \E songId \in SongIds, tagName \in TagNames : Issue(Mutation("add", songId, tagName, 0))

\* removeTagFromSong.mutate({ songId, tagId })
MutateRemoveTagFromSong ==
  \E songId \in SongIds, tagId \in TagIds : Issue(Mutation("remove", songId, "", tagId))

\* The response to a mutation is processed; seen is the number of mutations
\* issued by then.
Arrive(m, response, cache) ==
  /\ songsCache' = cache
  /\ pendingMutations' = pendingMutations \ {m}
  /\ arrivedResponses' =
       Append(arrivedResponses,
              [n |-> m.n, kind |-> m.kind, songId |-> m.songId, tagId |-> response,
               seen |-> Len(issuedMutations)])
  /\ UNCHANGED issuedMutations
  /\ CacheFrame

\* addTagToSong.onSuccess
AddTagToSongSuccess ==
  \E m \in pendingMutations, id \in TagIds :
    /\ m.kind = "add"
    /\ Arrive(m, id, addTagOnSuccess(songsCache, m.songId, Tag(id, m.tagName)))

\* removeTagFromSong.onSuccess
RemoveTagFromSongSuccess ==
  \E m \in pendingMutations :
    /\ m.kind = "remove"
    /\ Arrive(m, m.tagId, removeTagOnSuccess(songsCache, m.songId, m.tagId))

\* A mutation fails: useTagMutations has no onError, the cache is left alone.
TagMutationError ==
  /\ \E m \in pendingMutations : pendingMutations' = pendingMutations \ {m}
  /\ UNCHANGED <<songsCache, issuedMutations, arrivedResponses>>
  /\ CacheFrame

NextTagCache ==
  \/ MutateAddTagToSong
  \/ MutateRemoveTagFromSong
  \/ AddTagToSongSuccess
  \/ RemoveTagFromSongSuccess
  \/ TagMutationError

SpecTagCache == InitTagCache /\ [][NextTagCache]_vars

(***************************************************************************)
(* Claims about the tag mutations (specification SpecTagCache).            *)
(***************************************************************************)
\* Responses i and j, arrived in this order, are an add and a remove of one
\* tag on one song whose requests were in flight together, and no response
\* about that tag on that song arrived after j.
RacingPair(i, j) ==
  LET a == arrivedResponses[i]
      b == arrivedResponses[j]
  IN /\ i < j
     /\ a.songId = b.songId /\ a.tagId = b.tagId
     /\ {a.kind, b.kind} = {"add", "remove"}
     /\ b.n <= a.seen
     /\ \A k \in DOMAIN arrivedResponses :
          k > j => ~(arrivedResponses[k].songId = b.songId
                     /\ arrivedResponses[k].tagId = b.tagId)

\* The cached song has the tag.
HasTag(song, tagId) == \E k \in DOMAIN song.tags : song.tags[k].id = tagId

====
